---- MODULE Spec2Model ----
(***************************************************************************)
(* Context-pruning server: the selection (pruning) engine with its bounded *)
(* undo buffer (pruning-engine.ts), sequential and with calls interleaved  *)
(* at their awaits; the analysis, the recency and BM25 scoring and the     *)
(* strategy recommendation of the context analyzer (context-analyzer.ts);  *)
(* the BM25 scorer with its index and the summarizer with its segmentation *)
(* and summary text (summarizer.ts); and the thread continuity of the      *)
(* coherence scorer (coherence-scorer.ts).                                 *)
(*                                                                         *)
(* Numbers that are fractions in the source are kept exact: ratios and     *)
(* importance scores are in tenths (0.7 is 7), the analysis scores in      *)
(* hundredths (0.4 is 40), and every comparison is cross-multiplied.       *)
(* Contexts are the ones the server builds (parseConversation): messages   *)
(* only, no system context and no tool-result history.                     *)
(***************************************************************************)
EXTENDS Integers, Sequences, FiniteSets, TLC

VARIABLES
  rollbackHistory,  \* PruningEngine.rollbackHistory: Map in insertion order
  pruneCount,       \* number of pruning ids generated so far
  consumed,         \* history: ids whose rollback returned true
  op,               \* the last completed call: "none", "prune", "rollback"
  context,          \* prune: its context argument (the messages)
  strategy,         \* prune: its strategy argument
  categorized,      \* prune: what categorizeMessages returned
  result,           \* prune: the PruningResult returned
  rollbackArg,      \* rollback: its pruningId argument
  rollbackRet,      \* rollback: the boolean returned
  recIn,            \* recommendStrategy: its three arguments
  recOut,           \* recommendStrategy: the name returned
  anaIn,            \* analyze: the messages of its context argument
  anaOut,           \* analyze: the AnalysisResult returned
  index,            \* BM25Scorer: documentStats, globalTermFreq,
                    \* averageDocLength and totalDocuments
  scorerCall,       \* BM25Scorer: the last public call and how it ended
  passIn,           \* scoreMessages: Date.now() and the messages
  passOut,          \* scoreMessages: the scores and the scorer calls made
  calls,            \* concurrent prune calls: position and locals of each
  sumIn,            \* createSummaries: its level and messages
  sumOut,           \* createSummaries: the segments and Summary objects
  cohIn,            \* calculateThreadContinuity: its three arguments
  cohOut            \* calculateThreadContinuity: the value returned

vars == <<rollbackHistory, pruneCount, consumed, op, context, strategy,
          categorized, result, rollbackArg, rollbackRet, recIn, recOut,
          anaIn, anaOut, index, scorerCall, passIn, passOut, calls,
          sumIn, sumOut, cohIn, cohOut>>

engineVars == <<rollbackHistory, pruneCount, consumed, op, context, strategy,
                categorized, result, rollbackArg, rollbackRet>>

recVars == <<recIn, recOut>>

anaVars == <<anaIn, anaOut>>

scorerVars == <<index, scorerCall>>

passVars == <<passIn, passOut>>

\* Everything outside the pruning engine and recommendStrategy.
sumVars == <<sumIn, sumOut>>

cohVars == <<cohIn, cohOut>>

otherVars == <<anaVars, scorerVars, passVars, calls, sumVars, cohVars>>

----------------------------------------------------------------------------
(* Bounds *)

MaxMsgs == 3      \* longest context handed to prune
MaxPrunes == 6    \* prune calls on one engine in the undo-buffer runs
MaxCalls == 3     \* prune calls begun on one engine in the concurrent runs
MaxRun == 11      \* longest stretch of one kind of message to summarize

----------------------------------------------------------------------------
(* Program constants *)

MAX_ROLLBACK_HISTORY == 5
\* Number.MAX_SAFE_INTEGER is 2^53 - 1; the model keeps the largest integer
\* of its own arithmetic, which is likewise above every index.
MAX_SAFE_INTEGER == 2147483647
SummarizableMinTokens == 50
SummarizableMinLength == 200
AggressiveTokens == 150000
BalancedTokens == 100000
AggressiveRedundancy == 40
BalancedImportance == 40

----------------------------------------------------------------------------
(* Generic sequence helpers (Array.prototype methods) *)

RECURSIVE SumTokens(_)
SumTokens(msgs) ==
  IF msgs = <<>> THEN 0 ELSE Head(msgs).tokenCount + SumTokens(Tail(msgs))

calculateTotalTokens(msgs) == SumTokens(msgs)

Ids(msgs) == [i \in 1..Len(msgs) |-> msgs[i].id]

IdSet(msgs) == {msgs[i].id : i \in 1..Len(msgs)}

----------------------------------------------------------------------------
(* Inputs: messages as scoreMessages returns them, and strategies *)

\* A message without its id: type, metadata.tokenCount, content.length,
\* metadata.codeBlocks.length and metadata.importance.total (in tenths).
\* The importance is the total that scoreMessages attached to the message;
\* the selection reads nothing else of the score, so it is an input here.
Kind(t, tok, len, code, imp) ==
  [type |-> t, tokenCount |-> tok, contentLength |-> len,
   codeBlocks |-> code, importance |-> imp]

MsgKinds ==
  { Kind("query", 40, 100, 0, 8),
    Kind("query", 40, 100, 0, 4),
    Kind("query", 60, 300, 0, 8),
    Kind("query", 60, 300, 0, 4),
    Kind("query", 60, 150, 0, 4),
    Kind("code_change", 200, 150, 1, 8),
    Kind("code_change", 200, 150, 1, 2),
    Kind("error", 30, 100, 0, 8),
    Kind("error", 60, 300, 1, 2) }

\* Message ids are opaque and pairwise distinct; they are numbered against
\* the position so that id order and chronological order differ.
MsgId(i) == MaxMsgs + 1 - i

WithIds(kinds) ==
  [i \in 1..Len(kinds) |->
     [id |-> MsgId(i), type |-> kinds[i].type,
      tokenCount |-> kinds[i].tokenCount,
      contentLength |-> kinds[i].contentLength,
      codeBlocks |-> kinds[i].codeBlocks,
      importance |-> kinds[i].importance]]

Contexts ==
  UNION { {WithIds(k) : k \in [1..n -> MsgKinds]} : n \in 0..MaxMsgs }

StrategyNames == {"aggressive", "balanced", "conservative"}

DEFAULT_STRATEGIES ==
  [aggressive |->
     [name |-> "aggressive", maxTokens |-> 50000, preserveRatio |-> 3,
      summaryRatio |-> 4, importanceThreshold |-> 7,
      alwaysPreserve |-> {"error", "code_change"}],
   balanced |->
     [name |-> "balanced", maxTokens |-> 75000, preserveRatio |-> 5,
      summaryRatio |-> 3, importanceThreshold |-> 5,
      alwaysPreserve |-> {"error", "code_change", "file_operation"}],
   conservative |->
     [name |-> "conservative", maxTokens |-> 100000, preserveRatio |-> 7,
      summaryRatio |-> 2, importanceThreshold |-> 3,
      alwaysPreserve |->
        {"error", "code_change", "file_operation", "tool_use"}]]

\* handlePruneContext: the named default, with maxTokens replaced when the
\* request carries a (truthy) maxTokens.
activeStrategy(name, maxTokens) ==
  IF maxTokens # 0
    THEN [DEFAULT_STRATEGIES[name] EXCEPT !.maxTokens = maxTokens]
    ELSE DEFAULT_STRATEGIES[name]

MaxTokensArgs == {0, 100, 500}

\* The strategies of the server, and the same with nothing force-preserved.
Strategies ==
  LET served == {activeStrategy(n, mt) : n \in StrategyNames,
                                         mt \in MaxTokensArgs}
  IN served \cup {[s EXCEPT !.alwaysPreserve = {}] : s \in served}

----------------------------------------------------------------------------
(* PruningEngine.categorizeMessages and its helpers *)

\* Array.prototype.sort with (a, b) => b.importance - a.importance: stable,
\* descending by importance.
RECURSIVE InsertByImportance(_, _)
InsertByImportance(m, sorted) ==
  IF sorted = <<>> THEN <<m>>
  ELSE IF Head(sorted).importance >= m.importance
    THEN <<Head(sorted)>> \o InsertByImportance(m, Tail(sorted))
    ELSE <<m>> \o sorted

RECURSIVE SortByImportance(_)
SortByImportance(msgs) ==
  IF msgs = <<>> THEN <<>>
  ELSE InsertByImportance(msgs[Len(msgs)],
                          SortByImportance(SubSeq(msgs, 1, Len(msgs) - 1)))

isSummarizable(message) ==
  IF message.tokenCount < SummarizableMinTokens THEN FALSE
  ELSE IF message.type = "error" THEN FALSE
  ELSE IF message.codeBlocks > 0 THEN TRUE
  ELSE IF message.contentLength > SummarizableMinLength THEN TRUE
  ELSE FALSE

\* orderMap.get(id) ?? Number.MAX_SAFE_INTEGER: a Map built from entries
\* keeps the last index of an id.
OrderOf(id, originalOrder) ==
  LET at == {i \in 1..Len(originalOrder) : originalOrder[i].id = id}
  IN IF at = {} THEN MAX_SAFE_INTEGER
     ELSE CHOOSE i \in at : \A j \in at : j <= i

RECURSIVE InsertByOrder(_, _, _)
InsertByOrder(m, sorted, originalOrder) ==
  IF sorted = <<>> THEN <<m>>
  ELSE IF OrderOf(Head(sorted).id, originalOrder) <= OrderOf(m.id, originalOrder)
    THEN <<Head(sorted)>> \o InsertByOrder(m, Tail(sorted), originalOrder)
    ELSE <<m>> \o sorted

\* Variant: the sets are returned in importance order, not restored.
restoreOriginalOrderSkipped(msgs, originalOrder) == msgs

RECURSIVE restoreOriginalOrder(_, _)
restoreOriginalOrder(msgs, originalOrder) ==
  IF msgs = <<>> THEN <<>>
  ELSE InsertByOrder(msgs[Len(msgs)],
         restoreOriginalOrder(SubSeq(msgs, 1, Len(msgs) - 1), originalOrder),
         originalOrder)

Summarizable(msgs) == SelectSeq(msgs, isSummarizable)

NotSummarizable(msgs) == SelectSeq(msgs, LAMBDA m : ~isSummarizable(m))

\* Variant: the classification admits on importance alone, without the
\* budget test.
RECURSIVE ClassifyLoopIgnoresBudget(_, _, _)
ClassifyLoopIgnoresBudget(sortedMessages, strat, acc) ==
  IF sortedMessages = <<>> THEN acc
  ELSE
    LET message == Head(sortedMessages)
        shouldAlwaysPreserve == message.type \in strat.alwaysPreserve
        isHighImportance == message.importance >= strat.importanceThreshold
        next ==
          IF shouldAlwaysPreserve \/ isHighImportance
            THEN [acc EXCEPT !.preserved = Append(@, message),
                             !.currentTokens = @ + message.tokenCount]
          ELSE IF isSummarizable(message)
            THEN [acc EXCEPT !.toSummarize = Append(@, message)]
            ELSE [acc EXCEPT !.toRemove = Append(@, message)]
    IN ClassifyLoopIgnoresBudget(Tail(sortedMessages), strat, next)

\* The classification loop over the sorted messages; acc carries preserved,
\* toSummarize, toRemove and currentTokens.
RECURSIVE ClassifyLoop(_, _, _)
ClassifyLoop(sortedMessages, strat, acc) ==
  IF sortedMessages = <<>> THEN acc
  ELSE
    LET message == Head(sortedMessages)
        shouldAlwaysPreserve == message.type \in strat.alwaysPreserve
        isHighImportance == message.importance >= strat.importanceThreshold
        wouldFitInBudget ==
          acc.currentTokens + message.tokenCount <= strat.maxTokens
        next ==
          IF shouldAlwaysPreserve \/ (isHighImportance /\ wouldFitInBudget)
            THEN [acc EXCEPT !.preserved = Append(@, message),
                             !.currentTokens = @ + message.tokenCount]
          ELSE IF isSummarizable(message)
            THEN [acc EXCEPT !.toSummarize = Append(@, message)]
            ELSE [acc EXCEPT !.toRemove = Append(@, message)]
    IN ClassifyLoop(Tail(sortedMessages), strat, next)

\* Variant: the head of the preserved set is spliced off and the tail
\* kept.
BudgetCorrectionKeepsTail(acc, strat) ==
  IF acc.currentTokens * 10 > strat.maxTokens * strat.preserveRatio
    THEN LET keep == (Len(acc.preserved) * strat.preserveRatio) \div 10
             from == Len(acc.preserved) - keep
             excess == SubSeq(acc.preserved, 1, from)
         IN [acc EXCEPT !.preserved =
                          SubSeq(acc.preserved, from + 1, Len(acc.preserved)),
                        !.toSummarize = @ \o Summarizable(excess),
                        !.toRemove = @ \o NotSummarizable(excess)]
    ELSE acc

\* Variant: the whole excess is demoted to the summarization pool,
\* unfiltered.
BudgetCorrectionUnfiltered(acc, strat) ==
  IF acc.currentTokens * 10 > strat.maxTokens * strat.preserveRatio
    THEN LET keep == (Len(acc.preserved) * strat.preserveRatio) \div 10
             excess == SubSeq(acc.preserved, keep + 1, Len(acc.preserved))
         IN [acc EXCEPT !.preserved = SubSeq(acc.preserved, 1, keep),
                        !.toSummarize = @ \o excess]
    ELSE acc

\* if (currentTokens > maxTokens * preserveRatio): splice the tail of the
\* preserved set at floor(preserved.length * preserveRatio).
BudgetCorrection(acc, strat) ==
  IF acc.currentTokens * 10 > strat.maxTokens * strat.preserveRatio
    THEN LET keep == (Len(acc.preserved) * strat.preserveRatio) \div 10
             excess == SubSeq(acc.preserved, keep + 1, Len(acc.preserved))
         IN [acc EXCEPT !.preserved = SubSeq(acc.preserved, 1, keep),
                        !.toSummarize = @ \o Summarizable(excess),
                        !.toRemove = @ \o NotSummarizable(excess)]
    ELSE acc

\* Variant: the budget is tested against the running total before the
\* message is added.
RECURSIVE AdmitLoopTestsBefore(_, _, _)
AdmitLoopTestsBefore(summarizable, strat, acc) ==
  IF summarizable = <<>> THEN acc
  ELSE
    LET message == Head(summarizable)
        next ==
          IF acc.summaryTokens * 10 <= strat.maxTokens * strat.summaryRatio
            THEN [acc EXCEPT !.finalSummarizable = Append(@, message),
                             !.summaryTokens = @ + message.tokenCount]
            ELSE [acc EXCEPT !.toRemove = Append(@, message)]
    IN AdmitLoopTestsBefore(Tail(summarizable), strat, next)

\* Variant: a message that does not fit the summary budget is dropped
\* instead of discarded.
RECURSIVE AdmitLoopDropsRejected(_, _, _)
AdmitLoopDropsRejected(summarizable, strat, acc) ==
  IF summarizable = <<>> THEN acc
  ELSE
    LET message == Head(summarizable)
        next ==
          IF (acc.summaryTokens + message.tokenCount) * 10
               <= strat.maxTokens * strat.summaryRatio
            THEN [acc EXCEPT !.finalSummarizable = Append(@, message),
                             !.summaryTokens = @ + message.tokenCount]
            ELSE acc
    IN AdmitLoopDropsRejected(Tail(summarizable), strat, next)

\* Greedy admission of the re-sorted summarization pool within
\* maxTokens * summaryRatio; acc carries finalSummarizable, toRemove and
\* summaryTokens.
RECURSIVE AdmitLoop(_, _, _)
AdmitLoop(summarizable, strat, acc) ==
  IF summarizable = <<>> THEN acc
  ELSE
    LET message == Head(summarizable)
        next ==
          IF (acc.summaryTokens + message.tokenCount) * 10
               <= strat.maxTokens * strat.summaryRatio
            THEN [acc EXCEPT !.finalSummarizable = Append(@, message),
                             !.summaryTokens = @ + message.tokenCount]
            ELSE [acc EXCEPT !.toRemove = Append(@, message)]
    IN AdmitLoop(Tail(summarizable), strat, next)

categorizeMessages(messages, strat) ==
  LET sortedMessages == SortByImportance(messages)
      classified ==
        ClassifyLoop(sortedMessages, strat,
                     [preserved |-> <<>>, toSummarize |-> <<>>,
                      toRemove |-> <<>>, currentTokens |-> 0])
      corrected == BudgetCorrection(classified, strat)
      admitted ==
        AdmitLoop(SortByImportance(corrected.toSummarize), strat,
                  [finalSummarizable |-> <<>>,
                   toRemove |-> corrected.toRemove, summaryTokens |-> 0])
  IN [preserved |-> restoreOriginalOrder(corrected.preserved, messages),
      toRemove |-> restoreOriginalOrder(admitted.toRemove, messages),
      toSummarize |->
        restoreOriginalOrder(admitted.finalSummarizable, messages)]

----------------------------------------------------------------------------
(* PruningEngine.prune, storeRollbackData and rollback *)

estimateTokens(length) == (length + 3) \div 4

\* Summarizer.createSummaries(toSummarize, 'session') for messages without
\* file references: segmentByTopic never cuts below ten messages, so a
\* non-empty list is one segment and one Summary.  The summary text is never
\* empty (it ends in an outcome label) and is truncated to 500 characters
\* plus an ellipsis; its length is an input.
createSummaries(messages, contentLength) ==
  IF messages = <<>> THEN <<>>
  ELSE << [level |-> "session", contentLength |-> contentLength,
           originalMessageIds |-> Ids(messages)] >>

SummaryLengths == {19, 503}

\* summariesToMessages, as far as calculateTotalTokens reads the result.
summariesToMessages(summaries) ==
  [i \in 1..Len(summaries) |->
     [type |-> "summary",
      tokenCount |-> estimateTokens(summaries[i].contentLength)]]

\* ((originalTokens - finalTokens) / originalTokens) * 100 as a fraction;
\* a zero denominator gives NaN (0/0) or an infinity.
reductionPercentOf(originalTokens, finalTokens) ==
  IF originalTokens # 0
    THEN [kind |-> "number", num |-> (originalTokens - finalTokens) * 100,
          den |-> originalTokens]
  ELSE IF finalTokens = 0
    THEN [kind |-> "NaN", num |-> 0, den |-> 0]
    ELSE [kind |-> "-Infinity", num |-> 0, den |-> 0]

HistoryKeys(history) == [i \in 1..Len(history) |-> history[i].pruningId]

HistoryHas(history, id) ==
  \E i \in 1..Len(history) : history[i].pruningId = id

\* Map.prototype.set: a new key goes last, an existing key keeps its place.
MapSet(history, id, data) ==
  IF HistoryHas(history, id)
    THEN [i \in 1..Len(history) |->
            IF history[i].pruningId = id THEN data ELSE history[i]]
    ELSE Append(history, data)

MapDelete(history, id) ==
  SelectSeq(history, LAMBDA r : r.pruningId # id)

\* Variant: on overflow the newest key is deleted, not the oldest.
storeRollbackDataEvictsNewest(history, id, data) ==
  LET stored == MapSet(history, id, data)
  IN IF Len(stored) > MAX_ROLLBACK_HISTORY
       THEN MapDelete(stored, HistoryKeys(stored)[Len(stored)])
       ELSE stored

\* Variant: the oldest key is deleted as soon as the buffer is full.
storeRollbackDataEvictsAtCapacity(history, id, data) ==
  LET stored == MapSet(history, id, data)
  IN IF Len(stored) >= MAX_ROLLBACK_HISTORY
       THEN MapDelete(stored, HistoryKeys(stored)[1])
       ELSE stored

storeRollbackData(history, id, data) ==
  LET stored == MapSet(history, id, data)
  IN IF Len(stored) > MAX_ROLLBACK_HISTORY
       THEN MapDelete(stored, HistoryKeys(stored)[1])
       ELSE stored

\* generatePruningId: a fresh id per call.
generatePruningId == pruneCount + 1

NoStrategy ==
  [name |-> "none", maxTokens |-> 0, preserveRatio |-> 0, summaryRatio |-> 0,
   importanceThreshold |-> 0, alwaysPreserve |-> {}]

NoCategories == [preserved |-> <<>>, toRemove |-> <<>>, toSummarize |-> <<>>]

NoResult ==
  [originalTokens |-> 0, finalTokens |-> 0,
   reductionPercent |-> [kind |-> "none", num |-> 0, den |-> 0],
   messagesRemoved |-> 0, messagesSummarized |-> 0,
   summariesCreated |-> <<>>,
   rollbackData |-> [pruningId |-> 0, removedMessages |-> <<>>,
                     originalOrder |-> <<>>, timestamp |-> 0]]

\* Variant: the undo record also takes the summarized messages.
PruneOutcomeRecordsSummarized(ctx, strat, summaryLength, pruningId, now) ==
  LET originalTokens == calculateTotalTokens(ctx)
      cat == categorizeMessages(ctx, strat)
      summariesCreated == createSummaries(cat.toSummarize, summaryLength)
      rollbackData ==
        [pruningId |-> pruningId,
         removedMessages |-> cat.toRemove \o cat.toSummarize,
         originalOrder |-> Ids(ctx), timestamp |-> now]
      finalTokens ==
        calculateTotalTokens(cat.preserved
                             \o summariesToMessages(summariesCreated))
  IN [categorized |-> cat,
      rollbackData |-> rollbackData,
      result |->
        [originalTokens |-> originalTokens,
         finalTokens |-> finalTokens,
         reductionPercent |-> reductionPercentOf(originalTokens, finalTokens),
         messagesRemoved |-> Len(cat.toRemove),
         messagesSummarized |-> Len(cat.toSummarize),
         summariesCreated |-> summariesCreated,
         rollbackData |-> rollbackData]]

\* What prune computes before it touches the undo buffer.
PruneOutcome(ctx, strat, summaryLength, pruningId, now) ==
  LET originalTokens == calculateTotalTokens(ctx)
      cat == categorizeMessages(ctx, strat)
      summariesCreated == createSummaries(cat.toSummarize, summaryLength)
      rollbackData ==
        [pruningId |-> pruningId, removedMessages |-> cat.toRemove,
         originalOrder |-> Ids(ctx), timestamp |-> now]
      finalMessageTokens ==
        calculateTotalTokens(cat.preserved
                             \o summariesToMessages(summariesCreated))
      finalSystemTokens == 0
      finalToolResultTokens == 0
      finalTokens ==
        finalMessageTokens + finalSystemTokens + finalToolResultTokens
  IN [categorized |-> cat,
      rollbackData |-> rollbackData,
      result |->
        [originalTokens |-> originalTokens,
         finalTokens |-> finalTokens,
         reductionPercent |-> reductionPercentOf(originalTokens, finalTokens),
         messagesRemoved |-> Len(cat.toRemove),
         messagesSummarized |-> Len(cat.toSummarize),
         summariesCreated |-> summariesCreated,
         rollbackData |-> rollbackData]]

Prune(ctx, strat, summaryLength) ==
  /\ pruneCount < MaxPrunes
  /\ \E out \in {PruneOutcome(ctx, strat, summaryLength, generatePruningId,
                              pruneCount + 1)} :
        /\ rollbackHistory' =
             storeRollbackData(rollbackHistory, out.rollbackData.pruningId,
                               out.rollbackData)
        /\ categorized' = out.categorized
        /\ result' = out.result
  /\ pruneCount' = pruneCount + 1
  /\ op' = "prune"
  /\ context' = ctx
  /\ strategy' = strat
  /\ UNCHANGED <<consumed, rollbackArg, rollbackRet, recVars, otherVars>>

\* Variant: the record is found but not deleted.
RollbackKeepsRecord(pruningId) ==
  /\ op' = "rollback"
  /\ rollbackArg' = pruningId
  /\ IF ~HistoryHas(rollbackHistory, pruningId)
       THEN /\ rollbackRet' = FALSE
            /\ UNCHANGED <<rollbackHistory, consumed>>
       ELSE /\ rollbackRet' = TRUE
            /\ consumed' = consumed \cup {pruningId}
            /\ UNCHANGED rollbackHistory
  /\ UNCHANGED <<pruneCount, context, strategy, categorized, result,
               recVars, otherVars>>

\* Variant: the id is deleted and success reported without a lookup.
RollbackWithoutLookup(pruningId) ==
  /\ op' = "rollback"
  /\ rollbackArg' = pruningId
  /\ rollbackHistory' = MapDelete(rollbackHistory, pruningId)
  /\ rollbackRet' = TRUE
  /\ consumed' = consumed \cup {pruningId}
  /\ UNCHANGED <<pruneCount, context, strategy, categorized, result,
               recVars, otherVars>>

\* Variant: a successful rollback deletes the oldest record, not the named
\* one.
RollbackDeletesOldest(pruningId) ==
  /\ op' = "rollback"
  /\ rollbackArg' = pruningId
  /\ IF ~HistoryHas(rollbackHistory, pruningId)
       THEN /\ rollbackRet' = FALSE
            /\ UNCHANGED <<rollbackHistory, consumed>>
       ELSE /\ rollbackHistory' = Tail(rollbackHistory)
            /\ rollbackRet' = TRUE
            /\ consumed' = consumed \cup {pruningId}
  /\ UNCHANGED <<pruneCount, context, strategy, categorized, result,
               recVars, otherVars>>

\* rollback(pruningId); handleRollbackPruning reports its boolean as text.
Rollback(pruningId) ==
  /\ op' = "rollback"
  /\ rollbackArg' = pruningId
  /\ IF ~HistoryHas(rollbackHistory, pruningId)
       THEN /\ rollbackRet' = FALSE
            /\ UNCHANGED <<rollbackHistory, consumed>>
       ELSE /\ rollbackHistory' = MapDelete(rollbackHistory, pruningId)
            /\ rollbackRet' = TRUE
            /\ consumed' = consumed \cup {pruningId}
  /\ UNCHANGED <<pruneCount, context, strategy, categorized, result,
               recVars, otherVars>>

----------------------------------------------------------------------------
(* ContextAnalyzer.recommendStrategy *)

\* Variant: the thresholds are inclusive.
recommendStrategyInclusive(totalTokens, averageImportance, redundancyScore) ==
  IF totalTokens >= AggressiveTokens
       \/ redundancyScore >= AggressiveRedundancy
    THEN "aggressive"
  ELSE IF totalTokens >= BalancedTokens
          \/ averageImportance <= BalancedImportance
    THEN "balanced"
  ELSE "conservative"

\* averageImportance and redundancyScore are in hundredths.
recommendStrategy(totalTokens, averageImportance, redundancyScore) ==
  IF totalTokens > AggressiveTokens \/ redundancyScore > AggressiveRedundancy
    THEN "aggressive"
  ELSE IF totalTokens > BalancedTokens
          \/ averageImportance < BalancedImportance
    THEN "balanced"
  ELSE "conservative"

TokenTotals == {0, 100000, 100001, 150000, 150001}

Hundredths == {0, 39, 40, 41, 100}

RecInputs ==
  [totalTokens : TokenTotals, averageImportance : Hundredths,
   redundancyScore : Hundredths]

NoRecInput ==
  [totalTokens |-> 0, averageImportance |-> 0, redundancyScore |-> 0]

Recommend ==
  /\ recOut = "none"
  /\ recOut' = recommendStrategy(recIn.totalTokens, recIn.averageImportance,
                                 recIn.redundancyScore)
  /\ UNCHANGED <<recIn, engineVars, otherVars>>

----------------------------------------------------------------------------
(* ContextAnalyzer.analyze *)

\* A content string is kept as its runs of equal characters, [ch, n], with
\* no two adjacent runs of one character.  The characters are a capital and
\* two small letters, the space and one punctuation mark.
Run(ch, n) == [ch |-> ch, n |-> n]

RECURSIVE ContentLength(_)
ContentLength(content) ==
  IF content = <<>> THEN 0
  ELSE Head(content).n + ContentLength(Tail(content))

\* Adjacent runs of one character are one run.
RECURSIVE MergeRuns(_)
MergeRuns(content) ==
  IF Len(content) < 2 THEN content
  ELSE LET rest == MergeRuns(Tail(content))
       IN IF Head(content).ch = Head(rest).ch
            THEN <<Run(Head(rest).ch, Head(content).n + Head(rest).n)>>
                   \o Tail(rest)
            ELSE <<Head(content)>> \o rest

toLowerCase(content) ==
  MergeRuns([i \in 1..Len(content) |->
               IF content[i].ch = "A" THEN Run("a", content[i].n)
               ELSE content[i]])

\* replace(/\s+/g, ' ')
CollapseWhitespace(content) ==
  [i \in 1..Len(content) |->
     IF content[i].ch = " " THEN Run(" ", 1) ELSE content[i]]

\* replace(/[^\w\s]/g, '')
StripPunctuation(content) ==
  MergeRuns(SelectSeq(content, LAMBDA r : r.ch # "!"))

\* trim()
Trim(content) ==
  LET from == IF content # <<>> /\ Head(content).ch = " " THEN 2 ELSE 1
      to == IF content # <<>> /\ content[Len(content)].ch = " "
              THEN Len(content) - 1 ELSE Len(content)
  IN SubSeq(content, from, to)

normalizeContent(content) ==
  Trim(StripPunctuation(CollapseWhitespace(toLowerCase(content))))

\* A quotient of two counts, kept as the pair; 0 when the code returns the
\* literal 0 is Frac(0, 1).
Frac(num, den) == [num |-> num, den |-> den]

\* Variant: every message of a context with repeated content is counted,
\* the first occurrence included.
DuplicatesCountingFirst(messages, uniqueContents, duplicateCount) ==
  Cardinality({i \in 1..Len(messages) :
                 \E j \in 1..Len(messages) :
                   /\ j # i
                   /\ normalizeContent(messages[j].content)
                        = normalizeContent(messages[i].content)})

\* The loop of calculateContentSimilarity over a Set of normalized contents.
RECURSIVE Duplicates(_, _, _)
Duplicates(messages, uniqueContents, duplicateCount) ==
  IF messages = <<>> THEN duplicateCount
  ELSE LET normalizedContent == normalizeContent(Head(messages).content)
       IN IF normalizedContent \in uniqueContents
            THEN Duplicates(Tail(messages), uniqueContents,
                            duplicateCount + 1)
            ELSE Duplicates(Tail(messages),
                            uniqueContents \cup {normalizedContent},
                            duplicateCount)

calculateContentSimilarity(messages) ==
  IF Len(messages) > 0
    THEN Frac(Duplicates(messages, {}, 0), Len(messages))
    ELSE Frac(0, 1)

\* The three-type windows of calculatePatternRepetition and the count of
\* windows equal to an earlier one.
PatternAt(messages, i) ==
  <<messages[i].type, messages[i + 1].type, messages[i + 2].type>>

calculatePatternRepetition(messages) ==
  LET windows == 1..(Len(messages) - 2)
      repetitions ==
        Cardinality({i \in windows :
                       \E j \in windows :
                         j < i /\ PatternAt(messages, j)
                                    = PatternAt(messages, i)})
  IN IF windows # {} THEN Frac(repetitions, Len(messages) - 2)
     ELSE Frac(0, 1)

\* (contentSimilarity + patternRepetition) / 2
calculateRedundancy(messages) ==
  IF Len(messages) < 2 THEN Frac(0, 1)
  ELSE LET contentSimilarity == calculateContentSimilarity(messages)
           patternRepetition == calculatePatternRepetition(messages)
       IN Frac(contentSimilarity.num * patternRepetition.den
                 + patternRepetition.num * contentSimilarity.den,
               2 * contentSimilarity.den * patternRepetition.den)

RECURSIVE SumImportance(_)
SumImportance(messages) ==
  IF messages = <<>> THEN 0
  ELSE Head(messages).importance + SumImportance(Tail(messages))

\* Variant: no messages score the neutral 0.5.
calculateAverageImportanceNeutral(messages) ==
  IF Len(messages) = 0 THEN Frac(50, 1)
  ELSE Frac(SumImportance(messages), Len(messages))

\* The importance totals are in hundredths here, and so is the average.
calculateAverageImportance(messages) ==
  IF Len(messages) = 0 THEN Frac(0, 1)
  ELSE Frac(SumImportance(messages), Len(messages))

\* calculateEnhancedTokenCount without system context and tool results:
\* messageTokens + 0 + 0.
calculateEnhancedTokenCount(messages) == SumTokens(messages)

\* (reductionNeeded / currentTokens) * 100, or the literal 0.
estimateReduction(currentTokens, strategyName) ==
  IF currentTokens <= DEFAULT_STRATEGIES[strategyName].maxTokens
    THEN Frac(0, 1)
    ELSE Frac((currentTokens - DEFAULT_STRATEGIES[strategyName].maxTokens)
                * 100, currentTokens)

\* In hundredths, rounded down and rounded up: x < 40 is the same for x and
\* for x rounded down, x > 40 the same for x and for x rounded up.
FloorHundredths(f) == f.num \div f.den

CeilHundredths(f) == (f.num * 100 + f.den - 1) \div f.den

\* context.totalTokens is the sum parseConversation accumulates.
analyze(messages) ==
  LET redundancyScore == calculateRedundancy(messages)
      averageImportance == calculateAverageImportance(messages)
      totalTokens == calculateEnhancedTokenCount(messages)
      recommendedStrategy ==
        recommendStrategy(totalTokens, FloorHundredths(averageImportance),
                          CeilHundredths(redundancyScore))
  IN [outcome |-> "returned",
      totalMessages |-> Len(messages),
      totalTokens |-> totalTokens,
      averageImportance |-> averageImportance,
      redundancyScore |-> redundancyScore,
      contentSimilarity |->
        IF Len(messages) < 2 THEN Frac(0, 1)
        ELSE calculateContentSimilarity(messages),
      recommendedStrategy |-> recommendedStrategy,
      estimatedReduction |->
        estimateReduction(SumTokens(messages), recommendedStrategy)]

\* A message of the analysis without its id: type, content and the
\* importance total (in hundredths) that scoreMessages attached.
AnaKind(t, content, imp) ==
  [type |-> t, content |-> content,
   tokenCount |-> estimateTokens(ContentLength(content)),
   importance |-> imp]

LargeMessageLength == 600000

AnaKinds ==
  { AnaKind("query", <<Run("a", 8)>>, 75),
    AnaKind("success", <<Run("a", 8)>>, 75),
    AnaKind("query", <<Run(" ", 2), Run("A", 8), Run("!", 1)>>, 25),
    AnaKind("query", <<Run("a", 3), Run("!", 1), Run("a", 5)>>, 25),
    AnaKind("query", <<Run("b", 4), Run(" ", 3), Run("!", 2), Run(" ", 1),
                       Run("b", 1)>>, 25),
    AnaKind("query", <<Run("A", LargeMessageLength)>>, 75),
    AnaKind("query", <<Run("A", LargeMessageLength + 1)>>, 25) }

AnaContexts == UNION { [1..n -> AnaKinds] : n \in 0..MaxMsgs }

NoAnalysis == [outcome |-> "none"]

Analyze ==
  /\ anaOut = NoAnalysis
  /\ anaOut' = analyze(anaIn)
  /\ UNCHANGED <<sumVars, cohVars,
                 anaIn, engineVars, recVars, scorerVars, passVars, calls>>

----------------------------------------------------------------------------
(* BM25Scorer *)

\* A text argument is a string, kept as its words in order, or not a string
\* at all (undefined), on which preprocessText raises a TypeError.
Text(words) == [defined |-> TRUE, words |-> words]

Undefined == [defined |-> FALSE, words |-> <<>>]

Terms == {"fix", "bug"}

\* preprocessText: lower-case, drop the tokens of one character, drop the
\* stopwords, stem.
LowerCaseWord(w) == IF w = "Fix" THEN "fix" ELSE w

IsToken(w) == w # "x"

IsStopword(w) == w = "the"

Stem(w) == IF w = "fixes" THEN "fix" ELSE w

preprocessText(text) ==
  LET lowered == [i \in 1..Len(text.words) |-> LowerCaseWord(text.words[i])]
      tokens == SelectSeq(lowered, IsToken)
      withoutStopwords == SelectSeq(tokens, LAMBDA w : ~IsStopword(w))
  IN [i \in 1..Len(withoutStopwords) |-> Stem(withoutStopwords[i])]

CountOf(term, terms) ==
  Cardinality({i \in 1..Len(terms) : terms[i] = term})

NoTermFreq == [t \in Terms |-> 0]

\* The fields of a fresh scorer, and of one after clear().
EmptyIndex ==
  [documentStats |-> <<>>, globalTermFreq |-> NoTermFreq,
   averageDocLength |-> Frac(0, 1), totalDocuments |-> 0]

\* The first loop of indexDocuments; acc carries documentStats,
\* globalTermFreq, totalLength and whether preprocessText raised.
RECURSIVE IndexLoop(_, _)
IndexLoop(documents, acc) ==
  IF documents = <<>> THEN acc
  ELSE IF ~Head(documents).defined THEN [acc EXCEPT !.threw = TRUE]
  ELSE
    LET terms == preprocessText(Head(documents))
        docStats ==
          [termFreq |-> [t \in Terms |-> CountOf(t, terms)],
           totalTerms |-> Len(terms),
           normalizedLength |-> Frac(Len(terms), 1)]
    IN IndexLoop(Tail(documents),
         [acc EXCEPT
            !.documentStats = Append(@, docStats),
            !.globalTermFreq =
               [t \in Terms |-> @[t] + CountOf(t, terms)],
            !.totalLength = @ + Len(terms)])

\* indexDocuments on a scorer whose fields are idx: the fields afterwards
\* and whether the call raised.  totalTerms / averageDocLength is
\* totalTerms * totalDocuments / totalLength, 0/0 (NaN) for empty documents.
indexDocuments(idx, documents) ==
  LET looped ==
        IndexLoop(documents,
                  [documentStats |-> <<>>, globalTermFreq |-> NoTermFreq,
                   totalLength |-> 0, threw |-> FALSE])
      totalDocuments == Len(documents)
  IN IF looped.threw
       THEN [threw |-> TRUE,
             index |->
               [documentStats |-> looped.documentStats,
                globalTermFreq |-> looped.globalTermFreq,
                averageDocLength |-> idx.averageDocLength,
                totalDocuments |-> totalDocuments]]
       ELSE [threw |-> FALSE,
             index |->
               [documentStats |->
                  [i \in 1..Len(looped.documentStats) |->
                     [looped.documentStats[i] EXCEPT
                        !.normalizedLength =
                           Frac(looped.documentStats[i].totalTerms
                                  * totalDocuments, looped.totalLength)]],
                globalTermFreq |-> looped.globalTermFreq,
                averageDocLength |->
                  IF totalDocuments > 0
                    THEN Frac(looped.totalLength, totalDocuments)
                    ELSE Frac(0, 1),
                totalDocuments |-> totalDocuments]]

\* calculateScore(query, documentIndex), documentIndex counted from 0.  The
\* score is the sum of idf * tfComponent over the query terms found in the
\* document; it is kept as the list of what each summand is computed
\* from, and as no list when the index is out of range (the score 0).
calculateScore(idx, query, documentIndex) ==
  IF documentIndex < 0 \/ documentIndex >= Len(idx.documentStats)
    THEN [inRange |-> FALSE, summands |-> <<>>]
  ELSE
    LET queryTerms == preprocessText(query)
        docStats == idx.documentStats[documentIndex + 1]
        found == SelectSeq(queryTerms, LAMBDA t : docStats.termFreq[t] # 0)
    IN [inRange |-> TRUE,
        summands |->
          [i \in 1..Len(found) |->
             [termFreqInDoc |-> docStats.termFreq[found[i]],
              termFreqInCorpus |-> idx.globalTermFreq[found[i]],
              totalDocuments |-> idx.totalDocuments,
              normalizedLength |-> docStats.normalizedLength]]]

\* Variant: the temporary index of the two texts is left in place.
calculateSimilarityLeavesIndex(idx, text1, text2) ==
  LET indexed == indexDocuments(idx, <<text1, text2>>)
      mini == indexed.index
  IN IF indexed.threw
       THEN [threw |-> TRUE, ret |-> <<>>, index |-> mini]
       ELSE [threw |-> FALSE,
             ret |-> << calculateScore(mini, text2, 0),
                        calculateScore(mini, text1, 1),
                        calculateScore(mini, text1, 0),
                        calculateScore(mini, text2, 1) >>,
             index |-> mini]

\* calculateSimilarity on a scorer whose fields are idx: the four fields
\* are saved, the two texts indexed and scored, and the finally block puts
\* the saved fields back.  ret lists score1, score2 and the two scores of
\* maxPossibleScore.
calculateSimilarity(idx, text1, text2) ==
  LET originalStats == idx.documentStats
      originalGlobalFreq == idx.globalTermFreq
      originalAvgLength == idx.averageDocLength
      originalTotalDocs == idx.totalDocuments
      indexed == indexDocuments(idx, <<text1, text2>>)
      mini == indexed.index
      restored ==
        [mini EXCEPT !.documentStats = originalStats,
                     !.globalTermFreq = originalGlobalFreq,
                     !.averageDocLength = originalAvgLength,
                     !.totalDocuments = originalTotalDocs]
  IN IF indexed.threw
       THEN [threw |-> TRUE, ret |-> <<>>, index |-> restored]
       ELSE [threw |-> FALSE,
             ret |-> << calculateScore(mini, text2, 0),
                        calculateScore(mini, text1, 1),
                        calculateScore(mini, text1, 0),
                        calculateScore(mini, text2, 1) >>,
             index |-> restored]

Texts ==
  { Undefined,
    Text(<<>>),
    Text(<<"Fix", "the", "bug">>),
    Text(<<"fixes", "x", "fixes">>),
    Text(<<"bug", "bug", "the">>) }

Corpora == UNION { [1..n -> Texts] : n \in 0..2 }

NoCall == [name |-> "none", threw |-> FALSE, ret |-> <<>>]

IndexDocuments(documents) ==
  /\ \E out \in {indexDocuments(index, documents)} :
       /\ index' = out.index
       /\ scorerCall' =
            [name |-> "indexDocuments", threw |-> out.threw, ret |-> <<>>]
  /\ UNCHANGED <<sumVars, cohVars,
                 engineVars, recVars, anaVars, passVars, calls>>

CalculateSimilarity(text1, text2) ==
  /\ \E out \in {calculateSimilarity(index, text1, text2)} :
       /\ index' = out.index
       /\ scorerCall' =
            [name |-> "calculateSimilarity", threw |-> out.threw,
             ret |-> out.ret]
  /\ UNCHANGED <<sumVars, cohVars,
                 engineVars, recVars, anaVars, passVars, calls>>

Clear ==
  /\ index' = EmptyIndex
  /\ scorerCall' = [name |-> "clear", threw |-> FALSE, ret |-> <<>>]
  /\ UNCHANGED <<sumVars, cohVars,
                 engineVars, recVars, anaVars, passVars, calls>>

----------------------------------------------------------------------------
(* ContextAnalyzer.scoreMessages: the recency and the BM25 component *)

\* RECENCY_DECAY_FACTOR = 0.95 is 19/20.
DecayNum == 19
DecayDen == 20
MsPerMinute == 60000

\* Math.pow(0.95, k) is the double 0 from k = 14527 on: the power is below
\* half the smallest positive double.
UnderflowMinutes == 14527

RECURSIVE IntPow(_, _)
IntPow(base, k) == IF k = 0 THEN 1 ELSE base * IntPow(base, k - 1)

\* Variant: the factor is inverted, the score grows with the age.
MathPowInverted(ageInMinutes) ==
  IF ageInMinutes >= UnderflowMinutes THEN Frac(0, 1)
  ELSE Frac(IntPow(DecayDen, ageInMinutes), IntPow(DecayNum, ageInMinutes))

\* Math.pow(RECENCY_DECAY_FACTOR, ageInMinutes) for an age of whole minutes
\* that is either a few minutes, where the power is kept exact, or past the
\* underflow.
MathPow(ageInMinutes) ==
  IF ageInMinutes >= UnderflowMinutes THEN Frac(0, 1)
  ELSE Frac(IntPow(DecayNum, ageInMinutes), IntPow(DecayDen, ageInMinutes))

AgeInMinutes(messageTime, currentTime) ==
  (currentTime - messageTime) \div MsPerMinute

calculateRecencyScore(messageTime, currentTime) ==
  MathPow(AgeInMinutes(messageTime, currentTime))

\* Two keywords of the active profile (semanticKeywords.join(' ')).
ProfileKeywords == <<"bug", "fix">>

\* getRecentContext(messageIndex, allMessages, windowSize), messageIndex
\* counted from 0.
getRecentContext(messageIndex, allMessages, windowSize) ==
  LET start == IF messageIndex - windowSize > 0
                 THEN messageIndex - windowSize ELSE 0
      end == IF messageIndex + windowSize + 1 < Len(allMessages)
               THEN messageIndex + windowSize + 1 ELSE Len(allMessages)
  IN SubSeq(allMessages, start + 1, end)

RECURSIVE JoinContents(_)
JoinContents(messages) ==
  IF messages = <<>> THEN <<>>
  ELSE Head(messages).content.words \o JoinContents(Tail(messages))

\* calculateBM25Score: the query is never empty (the profile has keywords),
\* so the scorer is asked every time; the result is min(1, score / 10) of
\* the score kept here.
calculateBM25Score(idx, messageIndex, allMessages) ==
  LET contextMessages == getRecentContext(messageIndex, allMessages, 3)
      combinedQuery == Text(ProfileKeywords \o JoinContents(contextMessages))
  IN calculateScore(idx, combinedQuery, messageIndex)

\* allMessages.findIndex(m => m.id === message.id), counted from 0.
FindIndex(allMessages, id) ==
  (CHOOSE i \in 1..Len(allMessages) :
     /\ allMessages[i].id = id
     /\ \A j \in 1..(i - 1) : allMessages[j].id # id) - 1

\* scoreMessages on an analyzer whose scorer has the fields idx: for every
\* message the recency and the BM25 score of calculateHybridSemanticScore
\* and of calculateScoreBreakdown, and the calls made on the scorer in
\* order.  The scorer is only ever asked for scores.
scoreMessages(idx, now, messages) ==
  [outcome |-> "returned",
   scores |->
     [i \in 1..Len(messages) |->
        LET messageIndex == FindIndex(messages, messages[i].id)
        IN [recency |-> calculateRecencyScore(messages[i].timestamp, now),
            bm25Score |-> calculateBM25Score(idx, messageIndex, messages),
            breakdownBm25Score |->
              calculateBM25Score(idx, i - 1, messages)]],
   scorerCalls |->
     [k \in 1..(2 * Len(messages)) |->
        [name |-> "calculateScore",
         documentIndex |->
           IF k % 2 = 1
             THEN FindIndex(messages, messages[(k + 1) \div 2].id)
             ELSE (k \div 2) - 1]]]

\* Date.now() of the pass, and message timestamps a few whole minutes or
\* more than ten days before it.
NowMs == 1200000000

\* A message of the pass without its id: its age in whole minutes and
\* its content.
PassKind(age, content) ==
  [timestamp |-> NowMs - age * MsPerMinute, content |-> content]

PassKinds ==
  { PassKind(0, Text(<<"Fix", "the", "bug">>)),
    PassKind(1, Text(<<"fixes", "x">>)),
    PassKind(2, Text(<<"Fix", "the", "bug">>)),
    PassKind(3, Text(<<"bug">>)),
    PassKind(UnderflowMinutes, Text(<<"fixes", "x">>)),
    PassKind(20000, Text(<<"Fix", "the", "bug">>)) }

PassContexts ==
  UNION { { [i \in 1..n |->
               [id |-> MsgId(i), timestamp |-> k[i].timestamp,
                content |-> k[i].content]] : k \in [1..n -> PassKinds] }
          : n \in 0..MaxMsgs }

NoPass == [now |-> 0, messages |-> <<>>]

NoScores == [outcome |-> "none", scores |-> <<>>, scorerCalls |-> <<>>]

ScoreMessages ==
  /\ passOut = NoScores
  /\ passOut' = scoreMessages(index, passIn.now, passIn.messages)
  /\ UNCHANGED <<sumVars, cohVars,
                 passIn, engineVars, recVars, anaVars, scorerVars, calls>>

----------------------------------------------------------------------------
(* Concurrent calls of PruningEngine.prune *)

\* prune is an async function: it runs to its first await, and after every
\* await it is resumed by the event loop, which may run other calls in
\* between.  A call is idle, or suspended at one of the five awaits.
Callers == {1, 2}

Awaits ==
  << "getDetailedContextBreakdown", "scoreMessages", "pruneSystemContext",
     "pruneToolResults", "createSummaries" >>

IdleCall ==
  [pc |-> "idle", pruningId |-> 0, context |-> <<>>, strategy |-> NoStrategy]

NoCalls == [c \in Callers |-> IdleCall]

InFlight == {c \in Callers : calls[c].pc # "idle"}

AwaitAfter(pc) ==
  Awaits[(CHOOSE i \in 1..Len(Awaits) : Awaits[i] = pc) + 1]

\* Lines 57-60: the id is generated and the call suspends at its first
\* await.  Nothing in prune looks at the calls in flight.
PruneBegin(c, ctx, strat) ==
  /\ calls[c].pc = "idle"
  /\ calls' = [calls EXCEPT ![c] =
                 [pc |-> Awaits[1], pruningId |-> generatePruningId,
                  context |-> ctx, strategy |-> strat]]
  /\ pruneCount' = pruneCount + 1
  /\ UNCHANGED <<sumVars, cohVars,
                 rollbackHistory, consumed, op, context, strategy,
                 categorized, result, rollbackArg, rollbackRet,
                 recVars, anaVars, scorerVars, passVars>>

\* Lines 61-82: the call is resumed and runs to its next await; what it
\* computes on the way is local to the call.
PruneResume(c) ==
  /\ calls[c].pc \in {Awaits[i] : i \in 1..(Len(Awaits) - 1)}
  /\ calls' = [calls EXCEPT ![c].pc = AwaitAfter(calls[c].pc)]
  /\ UNCHANGED <<sumVars, cohVars,
                 engineVars, recVars, anaVars, scorerVars, passVars>>

\* Variant: the record is stored under the id generated last on the engine,
\* not under the id of the call.
PruneCompleteUnderLatestId(c, summaryLength) ==
  /\ calls[c].pc = Awaits[Len(Awaits)]
  /\ \E out \in {PruneOutcome(calls[c].context, calls[c].strategy,
                              summaryLength, pruneCount, pruneCount)} :
        /\ rollbackHistory' =
             storeRollbackData(rollbackHistory, out.rollbackData.pruningId,
                               out.rollbackData)
        /\ categorized' = out.categorized
        /\ result' = out.result
  /\ op' = "prune"
  /\ context' = calls[c].context
  /\ strategy' = calls[c].strategy
  /\ calls' = [calls EXCEPT ![c] = IdleCall]
  /\ UNCHANGED <<sumVars, cohVars,
                 pruneCount, consumed, rollbackArg, rollbackRet,
                 recVars, anaVars, scorerVars, passVars>>

\* Lines 83-115: resumed after createSummaries, the call stores its undo
\* record and returns.
PruneComplete(c, summaryLength) ==
  /\ calls[c].pc = Awaits[Len(Awaits)]
  /\ \E out \in {PruneOutcome(calls[c].context, calls[c].strategy,
                              summaryLength, calls[c].pruningId,
                              pruneCount)} :
        /\ rollbackHistory' =
             storeRollbackData(rollbackHistory, out.rollbackData.pruningId,
                               out.rollbackData)
        /\ categorized' = out.categorized
        /\ result' = out.result
  /\ op' = "prune"
  /\ context' = calls[c].context
  /\ strategy' = calls[c].strategy
  /\ calls' = [calls EXCEPT ![c] = IdleCall]
  /\ UNCHANGED <<sumVars, cohVars,
                 pruneCount, consumed, rollbackArg, rollbackRet,
                 recVars, anaVars, scorerVars, passVars>>

-----------------------------------------------------------------------------
(* Summarizer.createSummaries *)

\* A message as the summarizer reads it.  The content is its words, joined
\* by single spaces; a word is a string taken n times over, so that a long
\* run of letters stays small.  The words of the model hold no '.', '!', '?'
\* and no line break, and the messages carry no code blocks.
Word(w) == [w |-> w, n |-> 1]

Filler(n) == [w |-> "x", n |-> n]

Levels == {"immediate", "session", "project"}

MAX_SUMMARY_LENGTH == [immediate |-> 200, session |-> 500, project |-> 1000]

SegmentLimit == 10

JaccardNum == 3

JaccardDen == 10

SentenceCutNum == 7

SentenceCutDen == 10

MaxCodeChanges == 5

MaxFileOperations == 3

MaxErrors == 2

\* segmentByInteraction: a segment closes on an assistant message once it
\* holds two messages and one of a user.
RECURSIVE InteractionLoop(_, _, _)
InteractionLoop(messages, segments, currentSegment) ==
  IF messages = <<>>
    THEN IF Len(currentSegment) > 0
           THEN Append(segments, currentSegment)
           ELSE segments
  ELSE
    LET message == Head(messages)
        pushed == Append(currentSegment, message)
    IN IF /\ message.role = "assistant"
          /\ Len(pushed) >= 2
          /\ \E i \in 1..Len(pushed) : pushed[i].role = "user"
         THEN InteractionLoop(Tail(messages), Append(segments, pushed), <<>>)
         ELSE InteractionLoop(Tail(messages), segments, pushed)

segmentByInteraction(messages) == InteractionLoop(messages, <<>>, <<>>)

\* new Set(message.metadata.fileReferences)
FileSet(message) ==
  {message.fileReferences[i] : i \in 1..Len(message.fileReferences)}

\* Jaccard similarity of the two sets below 0.3; never with nothing tracked.
hasSignificantFileContextChange(oldFiles, newFiles) ==
  IF Cardinality(oldFiles) = 0 THEN FALSE
  ELSE Cardinality(oldFiles \cap newFiles) * JaccardDen
         < JaccardNum * Cardinality(oldFiles \cup newFiles)

\* Variant: the tracked files are cleared at a similarity cut as well.
RECURSIVE TopicLoopClearsAtEveryCut(_, _, _, _)
TopicLoopClearsAtEveryCut(messages, segments, currentSegment, lastFiles) ==
  IF messages = <<>>
    THEN IF Len(currentSegment) > 0
           THEN Append(segments, currentSegment)
           ELSE segments
  ELSE
    LET message == Head(messages)
        messageFiles == FileSet(message)
        cut == /\ hasSignificantFileContextChange(lastFiles, messageFiles)
               /\ Len(currentSegment) > 0
        segments1 == IF cut THEN Append(segments, currentSegment)
                     ELSE segments
        pushed == IF cut THEN <<message>> ELSE Append(currentSegment, message)
        lastFiles1 == IF cut THEN messageFiles
                      ELSE lastFiles \cup messageFiles
    IN IF Len(pushed) >= SegmentLimit
         THEN TopicLoopClearsAtEveryCut(Tail(messages),
                                        Append(segments1, pushed), <<>>, {})
         ELSE TopicLoopClearsAtEveryCut(Tail(messages), segments1, pushed,
                                        lastFiles1)

\* The loop of segmentByTopic.
RECURSIVE TopicLoop(_, _, _, _)
TopicLoop(messages, segments, currentSegment, lastFiles) ==
  IF messages = <<>>
    THEN IF Len(currentSegment) > 0
           THEN Append(segments, currentSegment)
           ELSE segments
  ELSE
    LET message == Head(messages)
        messageFiles == FileSet(message)
        cut == /\ hasSignificantFileContextChange(lastFiles, messageFiles)
               /\ Len(currentSegment) > 0
        segments1 == IF cut THEN Append(segments, currentSegment)
                     ELSE segments
        pushed == IF cut THEN <<message>> ELSE Append(currentSegment, message)
        lastFiles1 == lastFiles \cup messageFiles
    IN IF Len(pushed) >= SegmentLimit
         THEN TopicLoop(Tail(messages), Append(segments1, pushed), <<>>, {})
         ELSE TopicLoop(Tail(messages), segments1, pushed, lastFiles1)

segmentByTopic(messages) == TopicLoop(messages, <<>>, <<>>, {})

\* The loop of segmentByFileContext: fileGroups is the Map in insertion
\* order.  A first file reference that is the empty string is falsy, and
\* the message then joins no group.
RECURSIVE FileContextLoop(_, _, _)
FileContextLoop(messages, fileGroups, generalMessages) ==
  IF messages = <<>>
    THEN [fileGroups |-> fileGroups, generalMessages |-> generalMessages]
  ELSE
    LET message == Head(messages)
    IN IF Len(message.fileReferences) > 0
         THEN LET primaryFile == message.fileReferences[1]
                  has == \E i \in 1..Len(fileGroups) :
                           fileGroups[i].file = primaryFile
                  created ==
                    IF has THEN fileGroups
                    ELSE Append(fileGroups,
                                [file |-> primaryFile, messages |-> <<>>])
                  pushed ==
                    [i \in 1..Len(created) |->
                       IF created[i].file = primaryFile
                         THEN [created[i] EXCEPT
                                 !.messages = Append(@, message)]
                         ELSE created[i]]
              IN IF primaryFile # ""
                   THEN FileContextLoop(Tail(messages), pushed,
                                        generalMessages)
                   ELSE FileContextLoop(Tail(messages), fileGroups,
                                        generalMessages)
         ELSE FileContextLoop(Tail(messages), fileGroups,
                              Append(generalMessages, message))

segmentByFileContext(messages) ==
  LET out == FileContextLoop(messages, <<>>, <<>>)
      segments == [i \in 1..Len(out.fileGroups) |->
                     out.fileGroups[i].messages]
  IN IF Len(out.generalMessages) > 0
       THEN <<out.generalMessages>> \o segments
       ELSE segments

segmentConversation(messages, level) ==
  CASE level = "immediate" -> segmentByInteraction(messages)
    [] level = "session" -> segmentByTopic(messages)
    [] level = "project" -> segmentByFileContext(messages)

\* String.prototype.includes and the patterns of SUMMARY_PATTERNS on the
\* words of the model: the words that hold the keyword.
Lower(w) == IF w = "Created" THEN "created" ELSE w

WordsWith(keyword) ==
  CASE keyword = "create" -> {"created"}
    [] keyword = "fix" -> {"fix"}
    [] keyword = "done" -> {"done"}
    [] keyword = "function" -> {"function"}
    [] keyword = "bug" -> {"bug"}
    [] OTHER -> {}

Includes(words, keywords) ==
  \E i \in 1..Len(words), k \in keywords : Lower(words[i].w) \in WordsWith(k)

\* A list of distinct entries in first-seen order (a Set and Array.from).
RECURSIVE Distinct(_)
Distinct(items) ==
  IF items = <<>> THEN <<>>
  ELSE LET front == Distinct(SubSeq(items, 1, Len(items) - 1))
           last == items[Len(items)]
       IN IF \E i \in 1..Len(front) : front[i] = last
            THEN front ELSE Append(front, last)

Slice(items, n) == SubSeq(items, 1, IF Len(items) < n THEN Len(items) ELSE n)

\* Array.prototype.flat
RECURSIVE Flatten(_)
Flatten(lists) ==
  IF lists = <<>> THEN <<>>
  ELSE Head(lists) \o Flatten(Tail(lists))

extractActivities(messages) ==
  LET of(message) ==
        (IF Includes(message.words, {"implement", "create"})
           THEN <<"implementation">> ELSE <<>>)
        \o (IF Includes(message.words, {"fix", "debug"})
              THEN <<"debugging">> ELSE <<>>)
        \o (IF Includes(message.words, {"refactor", "improve"})
              THEN <<"refactoring">> ELSE <<>>)
        \o (IF Includes(message.words, {"test", "verify"})
              THEN <<"testing">> ELSE <<>>)
        \o (IF message.toolsUsed > 0 THEN <<"tool usage">> ELSE <<>>)
  IN Distinct(Flatten([i \in 1..Len(messages) |-> of(messages[i])]))

\* trim, collapse the white space, strip the non-word ends, lower-case: on
\* words joined by single spaces only the case changes.
cleanExtractedText(match) ==
  [i \in 1..Len(match) |-> [match[i] EXCEPT !.w = Lower(@)]]

\* The matches of a pattern that runs from a word of `from' to the nearest
\* later word of `to', left to right without overlap.
RECURSIVE Matches(_, _, _)
Matches(words, from, to) ==
  LET starts == {i \in 1..Len(words) : Lower(words[i].w) \in from}
  IN IF starts = {} THEN <<>>
     ELSE LET s == CHOOSE i \in starts : \A j \in starts : i <= j
              ends == {i \in (s + 1)..Len(words) : Lower(words[i].w) \in to}
          IN IF ends = {} THEN <<>>
             ELSE LET e == CHOOSE i \in ends : \A j \in ends : i <= j
                  IN <<SubSeq(words, s, e)>>
                       \o Matches(SubSeq(words, e + 1, Len(words)), from, to)

extractCodeChanges(messages) ==
  LET of(message) ==
        LET matches == Matches(message.words, WordsWith("create"),
                               WordsWith("function"))
        IN [i \in 1..Len(matches) |-> cleanExtractedText(matches[i])]
  IN Slice(Distinct(Flatten([i \in 1..Len(messages) |-> of(messages[i])])),
           MaxCodeChanges)

\* The file-operation pattern needs a '.', which no content of the model
\* holds; the entries are the "worked on <file>" of the file references.
extractFileOperations(messages) ==
  LET of(message) ==
        [i \in 1..Len(message.fileReferences) |->
           <<Word("worked"), Word("on"), Word(message.fileReferences[i])>>]
  IN Slice(Distinct(Flatten([i \in 1..Len(messages) |-> of(messages[i])])),
           MaxFileOperations)

\* The error pattern runs from its keyword to the end of the content; it is
\* tried on the error-flagged messages only.
extractErrors(messages) ==
  LET of(message) ==
        LET starts == {i \in 1..Len(message.words) :
                         Lower(message.words[i].w) \in WordsWith("bug")}
        IN IF message.hasError /\ starts # {}
             THEN LET s == CHOOSE i \in starts : \A j \in starts : i <= j
                  IN <<cleanExtractedText(
                         SubSeq(message.words, s, Len(message.words)))>>
             ELSE <<>>
  IN Slice(Distinct(Flatten([i \in 1..Len(messages) |-> of(messages[i])])),
           MaxErrors)

determineOutcome(messages) ==
  IF messages = <<>> THEN ""
  ELSE LET lastMessage == messages[Len(messages)]
       IN IF lastMessage.hasError THEN "unresolved"
          ELSE IF \/ lastMessage.type = "success"
                  \/ Includes(lastMessage.words, {"complete", "done"})
            THEN "completed successfully"
          ELSE IF lastMessage.type = "code_change" THEN "implemented changes"
          ELSE "in progress"

\* The summary text is kept as runs of characters, "." for the full stop
\* and "x" for every other character; adjacent runs are not merged.  A file name of the model is a stem
\* and the extension ".ts".
Lit(s) == IF Len(s) = 0 THEN <<>> ELSE <<Run("x", Len(s))>>

FullStop == <<Run(".", 1)>>

WordRuns(word) ==
  IF word.n = 1 /\ word.w \in {"a.ts", "b.ts"}
    THEN <<Run("x", Len(word.w) - 3)>> \o FullStop \o Lit("ts")
  ELSE IF Len(word.w) * word.n = 0 THEN <<>>
  ELSE <<Run("x", Len(word.w) * word.n)>>

\* words.join(' ')
RECURSIVE PhraseRuns(_)
PhraseRuns(words) ==
  IF words = <<>> THEN <<>>
  ELSE IF Len(words) = 1 THEN WordRuns(words[1])
  ELSE WordRuns(words[1]) \o Lit(" ") \o PhraseRuns(Tail(words))

\* items.join(', ')
RECURSIVE JoinRuns(_)
JoinRuns(items) ==
  IF items = <<>> THEN <<>>
  ELSE IF Len(items) = 1 THEN items[1]
  ELSE items[1] \o Lit(", ") \o JoinRuns(Tail(items))

Section(label, items) ==
  IF Len(items) > 0
    THEN Lit(label) \o JoinRuns(items) \o FullStop \o Lit(" ")
    ELSE <<>>

\* substring(0, n)
RECURSIVE Substring(_, _)
Substring(text, n) ==
  IF n <= 0 \/ text = <<>> THEN <<>>
  ELSE IF Head(text).n >= n THEN <<Run(Head(text).ch, n)>>
  ELSE <<Head(text)>> \o Substring(Tail(text), n - Head(text).n)

\* lastIndexOf('.'), from 0, or -1.
RECURSIVE LastIndexOfFullStop(_)
LastIndexOfFullStop(text) ==
  IF text = <<>> THEN -1
  ELSE LET last == text[Len(text)]
           front == SubSeq(text, 1, Len(text) - 1)
       IN IF last.ch = "." THEN ContentLength(text) - 1
          ELSE LastIndexOfFullStop(front)

truncateSummary(summary, maxLength) ==
  IF ContentLength(summary) <= maxLength THEN summary
  ELSE LET truncated == Substring(summary, maxLength)
           lastSentenceEnd == LastIndexOfFullStop(truncated)
       IN IF lastSentenceEnd * SentenceCutDen > maxLength * SentenceCutNum
            THEN Substring(truncated, lastSentenceEnd + 1)
            ELSE truncated \o <<Run(".", 3)>>

generateSummaryContent(messages, level) ==
  LET maxLength == MAX_SUMMARY_LENGTH[level]
      activities ==
        LET names == extractActivities(messages)
        IN [i \in 1..Len(names) |-> Lit(names[i])]
      codeChanges ==
        LET changes == extractCodeChanges(messages)
        IN [i \in 1..Len(changes) |-> PhraseRuns(changes[i])]
      fileOperations ==
        LET operations == extractFileOperations(messages)
        IN [i \in 1..Len(operations) |-> PhraseRuns(operations[i])]
      errors ==
        LET found == extractErrors(messages)
        IN [i \in 1..Len(found) |-> PhraseRuns(found[i])]
      outcome == determineOutcome(messages)
      summary ==
        Section("Activities: ", activities)
        \o Section("Code changes: ", codeChanges)
        \o Section("File operations: ", fileOperations)
        \o Section("Errors encountered: ", errors)
        \o (IF outcome # "" THEN Lit("Outcome: ") \o Lit(outcome)
            ELSE <<>>)
  IN truncateSummary(summary, maxLength)

calculateTokensSaved(originalMessages, summaryContent) ==
  LET originalTokens == SumTokens(originalMessages)
      summaryTokens == estimateTokens(ContentLength(summaryContent))
  IN IF originalTokens - summaryTokens > 0
       THEN originalTokens - summaryTokens ELSE 0

\* createSummary, null being the empty list.  The text holds no white
\* space at its ends, so trimmed it is empty only if it is empty.
createSummary(messages, level) ==
  IF Len(messages) = 0 THEN <<>>
  ELSE LET summaryContent == generateSummaryContent(messages, level)
       IN IF ContentLength(summaryContent) = 0 THEN <<>>
          ELSE << [level |-> level,
                   content |-> summaryContent,
                   originalMessageIds |-> Ids(messages),
                   tokensSaved |->
                     calculateTokensSaved(messages, summaryContent)] >>

\* Summarizer.createSummaries(context, level): the segments, as the ids of
\* their messages, and the Summary objects.
summarizerCreateSummaries(messages, level) ==
  LET segments == segmentConversation(messages, level)
      of(segment) == createSummary(segment, level)
  IN [outcome |-> "returned",
      segments |-> [i \in 1..Len(segments) |-> Ids(segments[i])],
      summaries |-> Flatten([i \in 1..Len(segments) |-> of(segments[i])])]

\* The messages of the model: a plain question, a closing answer on a.ts,
\* a change on b.ts described in one long word, an error report whose
\* first file reference is the empty string, and a change on both files.
SumKind(role, type, hasError, tokenCount, fileReferences, toolsUsed, words) ==
  [role |-> role, type |-> type, hasError |-> hasError,
   tokenCount |-> tokenCount, fileReferences |-> fileReferences,
   toolsUsed |-> toolsUsed, words |-> words]

SumKinds ==
  { SumKind("user", "query", FALSE, 10, <<>>, 0, <<Word("ok")>>),
    SumKind("assistant", "response", FALSE, 10, <<"a.ts">>, 1,
            <<Word("done")>>),
    SumKind("assistant", "code_change", FALSE, 280, <<"b.ts">>, 0,
            <<Word("Created"), Filler(1100), Word("function")>>),
    SumKind("user", "error", TRUE, 10, <<"">>, 0,
            <<Word("fix"), Word("bug")>>),
    SumKind("assistant", "code_change", FALSE, 105, <<"a.ts", "b.ts">>, 0,
            <<Word("Created"), Filler(400), Word("function")>>) }

\* The kinds that a long stretch of one conversation repeats.
RunKinds == {k \in SumKinds : k.words = <<Word("done")>>}

Repeat(kind, n) == [i \in 1..n |-> kind]

WithSumIds(kinds) ==
  [i \in 1..Len(kinds) |->
     [id |-> MsgId(i), role |-> kinds[i].role, type |-> kinds[i].type,
      hasError |-> kinds[i].hasError, tokenCount |-> kinds[i].tokenCount,
      fileReferences |-> kinds[i].fileReferences,
      toolsUsed |-> kinds[i].toolsUsed, words |-> kinds[i].words]]

NoSummarize == [level |-> "none", messages |-> <<>>]

NoSummaries == [outcome |-> "none", segments |-> <<>>, summaries |-> <<>>]

CreateSummaries ==
  /\ sumOut = NoSummaries
  /\ sumOut' = summarizerCreateSummaries(sumIn.messages, sumIn.level)
  /\ UNCHANGED <<sumIn, engineVars, recVars, anaVars, scorerVars, passVars,
                 calls, cohVars>>

-----------------------------------------------------------------------------
(* CoherenceScorer.calculateThreadContinuity *)

windowSize == 5

Max(a, b) == IF a >= b THEN a ELSE b

Min(a, b) == IF a <= b THEN a ELSE b

\* allMessages.slice(start, end); messageIndex counts from 0.
getContextWindow(messageIndex, allMessages, size) ==
  LET start == Max(0, messageIndex - size)
      end == Min(Len(allMessages), messageIndex + size + 1)
  IN SubSeq(allMessages, start + 1, end)

\* findIndex(m => m.id === id), from 0, or -1.
FindIndexOfId(allMessages, id) ==
  LET hits == {i \in 1..Len(allMessages) : allMessages[i].id = id}
  IN IF hits = {} THEN -1
     ELSE (CHOOSE i \in hits : \A j \in hits : i <= j) - 1

\* The value returned, in tenths when it is one of the two fixed values
\* 0.5 and 0.3.  Otherwise it is the sigmoid 1 / (1 + exp(-6 (s - 0.4))) of
\* the weighted mean s of the semantic similarities of the message to the
\* compared ones, each weighted by exp(-2 distance / maxDistance) > 0 (1
\* when maxDistance is 0); the result then names what was compared.
Fixed(tenths) == [kind |-> "fixed", tenths |-> tenths, compared |-> <<>>]

Sigmoid(compared) ==
  [kind |-> "sigmoid", tenths |-> 0, compared |-> compared]

NoContinuity == [kind |-> "none", tenths |-> 0, compared |-> <<>>]

calculateThreadContinuity(message, messageIndex, allMessages) ==
  LET contextWindow == getContextWindow(messageIndex, allMessages, windowSize)
      others == SelectSeq(contextWindow, LAMBDA m : m.id # message.id)
      compared ==
        [i \in 1..Len(others) |->
           [content |-> others[i].content,
            distance |->
              LET d == messageIndex - FindIndexOfId(allMessages, others[i].id)
              IN IF d >= 0 THEN d ELSE -d,
            maxDistance |-> Len(allMessages) - 1]]
  IN IF Len(contextWindow) = 0 THEN Fixed(5)
     ELSE IF Len(compared) = 0 THEN Fixed(3)
     ELSE Sigmoid(compared)

\* The arguments: a conversation, a position in it or past its end, and the
\* message at that position (a message of its own past the end).
CohContents == {"fix the bug", "ok"}

CohMessages(contents) ==
  [i \in 1..Len(contents) |-> [id |-> MsgId(i), content |-> contents[i]]]

ForeignMessage == [id |-> MsgId(0), content |-> "ok"]

NoThread == [message |-> ForeignMessage, messageIndex |-> -1,
             allMessages |-> <<>>]

CalculateThreadContinuity ==
  /\ cohOut = NoContinuity
  /\ cohOut' = calculateThreadContinuity(cohIn.message, cohIn.messageIndex,
                                         cohIn.allMessages)
  /\ UNCHANGED <<cohIn, engineVars, recVars, anaVars, scorerVars, passVars,
                 calls, sumVars>>

----------------------------------------------------------------------------
(* Specifications *)

EngineInit ==
  /\ rollbackHistory = <<>>
  /\ pruneCount = 0
  /\ consumed = {}
  /\ op = "none"
  /\ context = <<>>
  /\ strategy = NoStrategy
  /\ categorized = NoCategories
  /\ result = NoResult
  /\ rollbackArg = 0
  /\ rollbackRet = FALSE

\* The state of everything outside the engine and recommendStrategy
\* before any of its calls.
SumIdle ==
  /\ sumIn = NoSummarize
  /\ sumOut = NoSummaries

CohIdle ==
  /\ cohIn = NoThread
  /\ cohOut = NoContinuity

OtherInit ==
  /\ anaIn = <<>>
  /\ anaOut = NoAnalysis
  /\ index = EmptyIndex
  /\ scorerCall = NoCall
  /\ passIn = NoPass
  /\ passOut = NoScores
  /\ calls = NoCalls
  /\ SumIdle
  /\ CohIdle

Init ==
  /\ EngineInit
  /\ recIn = NoRecInput
  /\ recOut = "none"
  /\ OtherInit

\* The first prune of a fresh engine, over every context and strategy.
FirstPrune ==
  /\ pruneCount = 0
  /\ \E ctx \in Contexts, strat \in Strategies, len \in SummaryLengths :
       Prune(ctx, strat, len)

Next == FirstPrune

Spec == Init /\ [][Next]_vars

\* Any sequence of prunes and rollbacks on one engine, over a few contexts.
UndoContexts ==
  { <<>>,
    WithIds(<<Kind("query", 40, 100, 0, 4)>>),
    WithIds(<<Kind("query", 60, 150, 0, 4), Kind("error", 30, 100, 0, 8)>>) }

UndoStrategies == {activeStrategy("aggressive", 0)}

PruneCall ==
  \E ctx \in UndoContexts, strat \in UndoStrategies, len \in SummaryLengths :
    Prune(ctx, strat, len)

RollbackIds == 0..MaxPrunes

RollbackCall == \E id \in RollbackIds : Rollback(id)

UndoNext == PruneCall \/ RollbackCall

SpecUndo == Init /\ [][UndoNext]_vars

RecInit ==
  /\ EngineInit
  /\ recIn \in RecInputs
  /\ recOut = "none"
  /\ OtherInit

RecNext == Recommend

SpecRec == RecInit /\ [][RecNext]_vars

\* One analysis of each context.
AnaInit ==
  /\ EngineInit
  /\ recIn = NoRecInput
  /\ recOut = "none"
  /\ anaIn \in AnaContexts
  /\ anaOut = NoAnalysis
  /\ index = EmptyIndex
  /\ scorerCall = NoCall
  /\ passIn = NoPass
  /\ passOut = NoScores
  /\ calls = NoCalls
  /\ SumIdle
  /\ CohIdle

AnaNext == Analyze

SpecAna == AnaInit /\ [][AnaNext]_vars

\* Any sequence of public calls on one BM25Scorer.
ScorerNext ==
  \/ \E documents \in Corpora : IndexDocuments(documents)
  \/ \E text1 \in Texts, text2 \in Texts : CalculateSimilarity(text1, text2)
  \/ Clear

SpecScorer == Init /\ [][ScorerNext]_vars

\* One scoring pass of a fresh analyzer over each context.
PassInit ==
  /\ EngineInit
  /\ recIn = NoRecInput
  /\ recOut = "none"
  /\ anaIn = <<>>
  /\ anaOut = NoAnalysis
  /\ index = EmptyIndex
  /\ scorerCall = NoCall
  /\ passIn \in [now : {NowMs}, messages : PassContexts]
  /\ passOut = NoScores
  /\ calls = NoCalls
  /\ SumIdle
  /\ CohIdle

PassNext == ScoreMessages

SpecPass == PassInit /\ [][PassNext]_vars

\* Prune calls of two clients on one engine, interleaved at the awaits.
ConcContexts ==
  { <<>>,
    WithIds(<<Kind("query", 60, 150, 0, 4), Kind("error", 30, 100, 0, 8)>>) }

ConcNext ==
  \E c \in Callers :
    \/ /\ pruneCount < MaxCalls
       /\ \E ctx \in ConcContexts, strat \in UndoStrategies :
            PruneBegin(c, ctx, strat)
    \/ PruneResume(c)
    \/ \E len \in SummaryLengths : PruneComplete(c, len)

SpecConc == Init /\ [][ConcNext]_vars

\* Prune and rollback calls of two clients on an engine that has completed
\* five prunes of the empty context before: its undo buffer is full of
\* their records.
RECURSIVE HistoryAfter(_)
HistoryAfter(n) ==
  IF n = 0 THEN <<>>
  ELSE storeRollbackData(HistoryAfter(n - 1), n,
                         [pruningId |-> n, removedMessages |-> <<>>,
                          originalOrder |-> <<>>, timestamp |-> n])

EarlierPrunes == MAX_ROLLBACK_HISTORY

BusyInit ==
  /\ rollbackHistory = HistoryAfter(EarlierPrunes)
  /\ pruneCount = EarlierPrunes
  /\ consumed = {}
  /\ op = "none"
  /\ context = <<>>
  /\ strategy = NoStrategy
  /\ categorized = NoCategories
  /\ result = NoResult
  /\ rollbackArg = 0
  /\ rollbackRet = FALSE
  /\ recIn = NoRecInput
  /\ recOut = "none"
  /\ OtherInit

\* Rollbacks of the last earlier prune and of the first concurrent one.
BusyRollbackIds == {EarlierPrunes, EarlierPrunes + 1}

BusyNext ==
  \/ \E c \in Callers :
       \/ /\ pruneCount < EarlierPrunes + MaxCalls
          /\ \E ctx \in ConcContexts, strat \in UndoStrategies :
               PruneBegin(c, ctx, strat)
       \/ PruneResume(c)
       \/ \E len \in SummaryLengths : PruneComplete(c, len)
  \/ \E id \in BusyRollbackIds : Rollback(id)

SpecBusy == BusyInit /\ [][BusyNext]_vars

\* Summaries of a conversation: a stretch of one kind of message, then up
\* to MaxMsgs messages of any kind.
SumInit ==
  /\ EngineInit
  /\ recIn = NoRecInput
  /\ recOut = "none"
  /\ anaIn = <<>>
  /\ anaOut = NoAnalysis
  /\ index = EmptyIndex
  /\ scorerCall = NoCall
  /\ passIn = NoPass
  /\ passOut = NoScores
  /\ calls = NoCalls
  /\ \E k \in 0..MaxRun, kind \in RunKinds, n \in 0..MaxMsgs, level \in Levels :
       \E kinds \in [1..n -> SumKinds] :
         sumIn = [level |-> level,
                  messages |-> WithSumIds(Repeat(kind, k) \o kinds)]
  /\ sumOut = NoSummaries
  /\ CohIdle

SumNext == CreateSummaries

SpecSum == SumInit /\ [][SumNext]_vars

\* Thread continuity at each position of a conversation and past its end.
CohInit ==
  /\ EngineInit
  /\ recIn = NoRecInput
  /\ recOut = "none"
  /\ anaIn = <<>>
  /\ anaOut = NoAnalysis
  /\ index = EmptyIndex
  /\ scorerCall = NoCall
  /\ passIn = NoPass
  /\ passOut = NoScores
  /\ calls = NoCalls
  /\ SumIdle
  /\ \E n \in 0..MaxMsgs :
       \E contents \in [1..n -> CohContents], i \in 0..(n + windowSize) :
         LET allMessages == CohMessages(contents)
         IN cohIn = [message |-> IF i < n THEN allMessages[i + 1]
                                 ELSE ForeignMessage,
                     messageIndex |-> i,
                     allMessages |-> allMessages]
  /\ cohOut = NoContinuity

CohNext == CalculateThreadContinuity

SpecCoh == CohInit /\ [][CohNext]_vars

----------------------------------------------------------------------------
(* Properties of the first prune (Spec) *)

PreservedIds == IdSet(categorized.preserved)

SummarizeIds == IdSet(categorized.toSummarize)

RemoveIds == IdSet(categorized.toRemove)

FilterById(msgs, ids) == SelectSeq(msgs, LAMBDA m : m.id \in ids)

\* C1: pruning puts every message of the context in exactly one of
\* preserved, toSummarize and toRemove: the three id sets are pairwise
\* disjoint, their union is the id set of the context, and no message is
\* listed twice.
C1_Partition ==
  op = "prune" =>
    /\ PreservedIds \cap SummarizeIds = {}
    /\ PreservedIds \cap RemoveIds = {}
    /\ SummarizeIds \cap RemoveIds = {}
    /\ PreservedIds \cup SummarizeIds \cup RemoveIds = IdSet(context)
    /\ Len(categorized.preserved) + Len(categorized.toSummarize)
         + Len(categorized.toRemove) = Len(context)

\* A prune whose three sets are all non-empty.
C1_Witness ==
  /\ op = "prune"
  /\ categorized.preserved # <<>>
  /\ categorized.toSummarize # <<>>
  /\ categorized.toRemove # <<>>

\* C2: every message whose type is in strategy.alwaysPreserve is in the
\* preserved set, whatever its importance and the token budget.
C2_AlwaysPreserved ==
  op = "prune" =>
    \A i \in 1..Len(context) :
      context[i].type \in strategy.alwaysPreserve
        => context[i].id \in PreservedIds

\* C3: with maxTokens greater than the total token count of the context,
\* prune removes nothing, summarizes nothing and reports a reduction of 0.
C3_NoOpUnderBudget ==
  (op = "prune" /\ strategy.maxTokens > calculateTotalTokens(context)) =>
    /\ result.messagesRemoved = 0
    /\ result.messagesSummarized = 0
    /\ result.reductionPercent.kind = "number"
    /\ result.reductionPercent.num = 0

\* C4: each of the three sets lists its messages in the order of the
\* context: it is the context filtered to the ids of the set.
C4_OriginalOrder ==
  op = "prune" =>
    /\ categorized.preserved = FilterById(context, PreservedIds)
    /\ categorized.toSummarize = FilterById(context, SummarizeIds)
    /\ categorized.toRemove = FilterById(context, RemoveIds)

\* A set holds two messages that the importance sort had put in the other
\* order.
C4_Witness ==
  /\ op = "prune"
  /\ \E set \in {categorized.preserved, categorized.toRemove} :
       \E i, j \in 1..Len(set) :
         i < j /\ set[i].importance < set[j].importance

\* C8: the undo record of a prune holds exactly the discarded messages of
\* that pass, nothing of the preserved or summarized sets, and the ids of
\* the context in input order; it is the record stored in the undo buffer.
C8_UndoRecord ==
  op = "prune" =>
    LET record == result.rollbackData
    IN /\ record.removedMessages = categorized.toRemove
       /\ IdSet(record.removedMessages)
            = IdSet(context) \ (PreservedIds \cup SummarizeIds)
       /\ record.originalOrder = [i \in 1..Len(context) |-> context[i].id]
       /\ rollbackHistory # <<>>
       /\ rollbackHistory[Len(rollbackHistory)] = record

\* A prune that discards two messages and summarizes another.
C8_Witness ==
  /\ op = "prune"
  /\ Len(result.rollbackData.removedMessages) >= 2
  /\ result.messagesSummarized >= 1

----------------------------------------------------------------------------
(* Properties of the undo buffer (SpecUndo) *)

Held(id) == HistoryHas(rollbackHistory, id)

Issued(id) == id \in 1..pruneCount

\* The ids of the n most recent prunes, oldest first.
LastIssued(n) ==
  LET from == IF pruneCount > n THEN pruneCount - n + 1 ELSE 1
  IN [i \in 1..(pruneCount - from + 1) |-> from + i - 1]

\* C5: the undo buffer never holds more than MAX_ROLLBACK_HISTORY records;
\* once more prunes than that have completed and none was rolled back, the
\* buffer holds exactly the records of the latest five prunes, oldest first,
\* so the first prune's record is gone and a rollback of it fails.
C5_BoundedBuffer ==
  /\ Len(rollbackHistory) <= 5
  /\ (pruneCount > 5 /\ consumed = {}) =>
       /\ HistoryKeys(rollbackHistory) = LastIssued(5)
       /\ ~Held(1)
       /\ (op = "rollback" /\ rollbackArg = 1) => rollbackRet = FALSE

\* Six prunes without a rollback, then a rollback with the first id.
C5_Witness ==
  /\ pruneCount = 6
  /\ consumed = {}
  /\ op = "rollback"
  /\ rollbackArg = 1
  /\ rollbackRet = FALSE
  /\ Len(rollbackHistory) = 5

\* C6: rollback(id) returns true exactly when a record with that id is in
\* the undo buffer, and the call removes it; so for one id it returns true
\* at most once and false ever after.
C6_SingleUse ==
  [][op' = "rollback" =>
       /\ rollbackRet' = Held(rollbackArg')
       /\ ~HistoryHas(rollbackHistory', rollbackArg')
       /\ rollbackArg' \in consumed => rollbackRet' = FALSE]_vars

\* The second rollback of an id.
C6_Witness ==
  /\ op = "rollback"
  /\ rollbackArg \in consumed
  /\ rollbackRet = FALSE

\* C7: rollback with an id that was never issued, was already rolled back or
\* was evicted returns false and leaves the undo buffer as it was.
C7_FailedRollback ==
  [][(/\ op' = "rollback"
      /\ \/ ~Issued(rollbackArg')
         \/ rollbackArg' \in consumed
         \/ Issued(rollbackArg') /\ ~Held(rollbackArg'))
       => /\ rollbackRet' = FALSE
          /\ rollbackHistory' = rollbackHistory]_vars

\* A failed rollback of an evicted id while the buffer is full.
C7_Witness ==
  /\ op = "rollback"
  /\ rollbackRet = FALSE
  /\ Issued(rollbackArg)
  /\ rollbackArg \notin consumed
  /\ Len(rollbackHistory) = MAX_ROLLBACK_HISTORY

C29_RecordsLeave ==
  [][/\ \A i \in 1..Len(rollbackHistory) :
          ~HistoryHas(rollbackHistory', rollbackHistory[i].pruningId) =>
            \/ /\ op' = "rollback"
               /\ rollbackArg' = rollbackHistory[i].pruningId
               /\ rollbackRet'
            \/ /\ pruneCount' = pruneCount + 1
               /\ i = 1
               /\ Len(rollbackHistory) = MAX_ROLLBACK_HISTORY
     /\ pruneCount' = pruneCount =>
          rollbackHistory'
            = SelectSeq(rollbackHistory,
                        LAMBDA r : r.pruningId # rollbackArg')
     /\ \A id \in 1..pruneCount' :
          (id \notin consumed' /\ id > pruneCount' - MAX_ROLLBACK_HISTORY) =>
            \E i \in 1..Len(rollbackHistory') :
              /\ rollbackHistory'[i].pruningId = id
              /\ \A j \in 1..Len(rollbackHistory') :
                   rollbackHistory'[j].pruningId > id => j > i]_vars

\* A successful rollback of a record from the middle of the buffer, after
\* an eviction, with an older and a newer record left.
C29_Witness ==
  /\ op = "rollback"
  /\ rollbackRet = TRUE
  /\ pruneCount > MAX_ROLLBACK_HISTORY
  /\ \E i, j \in 1..Len(rollbackHistory) :
       /\ rollbackHistory[i].pruningId < rollbackArg
       /\ rollbackHistory[j].pruningId > rollbackArg

----------------------------------------------------------------------------
(* Properties of the recommendation (SpecRec) *)

----------------------------------------------------------------------------
(* Properties of one analysis (SpecAna) *)

Analyzed == anaOut.outcome = "returned"

\* C11: the analysis of a context that is one single message of 600,000
\* characters (150,000 tokens at 4 characters per token) recommends the
\* 'aggressive' strategy.
C11_LargeMessageAggressive ==
  (/\ Analyzed
   /\ Len(anaIn) = 1
   /\ ContentLength(anaIn[1].content) = LargeMessageLength)
    => anaOut.recommendedStrategy = "aggressive"

\* C12: the analysis of the empty context returns, with totalMessages = 0,
\* totalTokens = 0 and averageImportance the number 0.
C12_EmptyAnalysis ==
  (Analyzed /\ anaIn = <<>>) =>
    /\ anaOut.totalMessages = 0
    /\ anaOut.totalTokens = 0
    /\ anaOut.averageImportance.num = 0
    /\ anaOut.averageImportance.den # 0

\* The empty context has been analysed.
C12_Witness == Analyzed /\ anaIn = <<>>

\* Two or more messages, all with the content of the first.
AllIdentical ==
  /\ Len(anaIn) >= 2
  /\ \A i \in 1..Len(anaIn) : anaIn[i].content = anaIn[1].content

\* C14 as stated: for n >= 2 messages of byte-identical content the content
\* component of the redundancy is 1.
C14_IdenticalContentIsOne ==
  (Analyzed /\ AllIdentical) =>
    anaOut.contentSimilarity.num = anaOut.contentSimilarity.den

\* C14, amended: for n >= 2 messages of byte-identical content the content
\* component of the redundancy is (n - 1) / n: every message but the first
\* duplicates an earlier one.
C14_IdenticalContentFraction ==
  (Analyzed /\ AllIdentical) =>
    /\ anaOut.contentSimilarity.num = Len(anaIn) - 1
    /\ anaOut.contentSimilarity.den = Len(anaIn)

\* Three messages of one content have been analysed.
C14_Witness == Analyzed /\ AllIdentical /\ Len(anaIn) = 3

----------------------------------------------------------------------------
(* Further properties of the first prune (Spec) *)

\* The summarization pool of the prune: what the classification put
\* there and what the budget correction demoted into it.
SummarizationPool ==
  BudgetCorrection(
    ClassifyLoop(SortByImportance(context), strategy,
                 [preserved |-> <<>>, toSummarize |-> <<>>,
                  toRemove |-> <<>>, currentTokens |-> 0]),
    strategy).toSummarize

\* C19: the tokens of the summarize set returned by prune total at most
\* maxTokens * summaryRatio, and every message of the summarization pool
\* that is not in the summarize set is in the discard set.
C19_SummaryBudget ==
  op = "prune" =>
    /\ SumTokens(categorized.toSummarize) * 10
         <= strategy.maxTokens * strategy.summaryRatio
    /\ \A i \in 1..Len(SummarizationPool) :
         SummarizationPool[i].id \notin SummarizeIds
           => SummarizationPool[i].id \in RemoveIds

\* A prune whose pool has a message that was admitted and one that was not.
C19_Witness ==
  /\ op = "prune"
  /\ \E i, j \in 1..Len(SummarizationPool) :
       /\ SummarizationPool[i].id \in SummarizeIds
       /\ SummarizationPool[j].id \in RemoveIds

MeetsSummaryTest(m) ==
  /\ m.tokenCount >= 50
  /\ m.type # "error"
  /\ m.codeBlocks >= 1 \/ m.contentLength > 200

\* C20: every message of the summarize set returned by prune, classified
\* there or demoted from the preserved set, has at least 50 tokens, is no
\* error and has a code block or more than 200 characters; a message that
\* fails this and is not preserved is discarded.
C20_SummarizeSetSummarizable ==
  op = "prune" =>
    /\ \A i \in 1..Len(categorized.toSummarize) :
         MeetsSummaryTest(categorized.toSummarize[i])
    /\ \A i \in 1..Len(context) :
         (~MeetsSummaryTest(context[i]) /\ context[i].id \notin PreservedIds)
           => context[i].id \in RemoveIds

\* A prune that summarizes a message demoted from the preserved set (its
\* type is always preserved) and discards another demoted one that fails
\* the test.
C20_Witness ==
  /\ op = "prune"
  /\ \E i \in 1..Len(categorized.toSummarize) :
       categorized.toSummarize[i].type \in strategy.alwaysPreserve
  /\ \E i \in 1..Len(categorized.toRemove) :
       /\ categorized.toRemove[i].type \in strategy.alwaysPreserve
       /\ ~MeetsSummaryTest(categorized.toRemove[i])

\* What the classification loop of the prune left before the budget
\* correction.
Classified ==
  ClassifyLoop(SortByImportance(context), strategy,
               [preserved |-> <<>>, toSummarize |-> <<>>,
                toRemove |-> <<>>, currentTokens |-> 0])

CorrectionFires ==
  Classified.currentTokens * 10 > strategy.maxTokens * strategy.preserveRatio

KeptCount == (Len(Classified.preserved) * strategy.preserveRatio) \div 10

Kept == SubSeq(Classified.preserved, 1, KeptCount)

Demoted ==
  SubSeq(Classified.preserved, KeptCount + 1, Len(Classified.preserved))

PreservedByImportance == SortByImportance(categorized.preserved)

\* C22: a preserved message whose type is not in alwaysPreserve has
\* importance >= importanceThreshold and, added to the preserved tokens
\* running before it, stays within maxTokens; so with an empty
\* alwaysPreserve the preserved set totals at most maxTokens.
C22_PreservedWithinBudget ==
  op = "prune" =>
    /\ \A i \in 1..Len(PreservedByImportance) :
         PreservedByImportance[i].type \notin strategy.alwaysPreserve =>
           /\ PreservedByImportance[i].importance
                >= strategy.importanceThreshold
           /\ SumTokens(SubSeq(PreservedByImportance, 1, i))
                <= strategy.maxTokens
    /\ strategy.alwaysPreserve = {} =>
         SumTokens(categorized.preserved) <= strategy.maxTokens

\* A prune with nothing force-preserved that preserves a message and
\* turns away another of sufficient importance for lack of budget.
C22_Witness ==
  /\ op = "prune"
  /\ strategy.alwaysPreserve = {}
  /\ categorized.preserved # <<>>
  /\ ~CorrectionFires
  /\ \E i \in 1..Len(context) :
       /\ context[i].importance >= strategy.importanceThreshold
       /\ context[i].id \notin PreservedIds

\* C28: for a non-empty context, the finalTokens that prune reports
\* (preserved messages plus the summaries that replace the summarized ones)
\* are at most its originalTokens, so reductionPercent is not negative.
C28_PruneNeverGrows ==
  (op = "prune" /\ context # <<>>) =>
    /\ result.finalTokens <= result.originalTokens
    /\ result.reductionPercent.kind = "number"
    /\ result.reductionPercent.num >= 0

\* C13: prune on the empty context returns zero totals under every
\* strategy: originalTokens, finalTokens, messagesRemoved and
\* messagesSummarized are 0 and reductionPercent is the number 0, not the
\* result of dividing by the zero original total.
C13_EmptyPruneZeros ==
  (op = "prune" /\ context = <<>>) =>
    /\ result.originalTokens = 0
    /\ result.finalTokens = 0
    /\ result.messagesRemoved = 0
    /\ result.messagesSummarized = 0
    /\ result.reductionPercent.kind = "number"
    /\ result.reductionPercent.num = 0

----------------------------------------------------------------------------
(* Properties of the BM25Scorer (SpecScorer) *)

\* C16: calculateSimilarity leaves the persistent index as it found it,
\* whether it returns or raises: documentStats, globalTermFreq,
\* averageDocLength and totalDocuments are what they were before the call,
\* and calculateScore gives the same result for every query and document.
C16_SimilarityRestoresIndex ==
  [][scorerCall'.name = "calculateSimilarity" =>
       /\ index'.documentStats = index.documentStats
       /\ index'.globalTermFreq = index.globalTermFreq
       /\ index'.averageDocLength = index.averageDocLength
       /\ index'.totalDocuments = index.totalDocuments
       /\ \A query \in Texts \ {Undefined}, documentIndex \in 0..2 :
            calculateScore(index', query, documentIndex)
              = calculateScore(index, query, documentIndex)]_vars

\* calculateSimilarity has raised on a scorer that holds an indexed corpus
\* of two documents with terms.
C16_Witness ==
  /\ scorerCall.name = "calculateSimilarity"
  /\ scorerCall.threw
  /\ index.totalDocuments = 2
  /\ Len(index.documentStats) = 2
  /\ index.globalTermFreq["fix"] > 0

\* C27: after indexDocuments has returned, the count kept for a term, which
\* calculateScore uses as df in the IDF, is the number of indexed documents
\* that hold the term, so it is at most the corpus size N and
\* N - df + 0.5 is positive.
C27_DocumentFrequency ==
  (scorerCall.name = "indexDocuments" /\ ~scorerCall.threw) =>
    \A t \in Terms :
      /\ index.globalTermFreq[t]
           = Cardinality({i \in 1..Len(index.documentStats) :
                            index.documentStats[i].termFreq[t] > 0})
      /\ index.globalTermFreq[t] <= index.totalDocuments
      /\ 2 * (index.totalDocuments - index.globalTermFreq[t]) + 1 > 0

----------------------------------------------------------------------------
(* Properties of one scoring pass (SpecPass) *)

Scored == passOut.outcome = "returned"

Recency(i) == passOut.scores[i].recency

Age(i) == AgeInMinutes(passIn.messages[i].timestamp, passIn.now)

Later(i, j) == passIn.messages[i].timestamp > passIn.messages[j].timestamp

Less(f, g) == f.num * g.den < g.num * f.den

\* The age up to which a later timestamp is required to score strictly
\* higher: the power is a normal double far beyond it.
StrictAgeMinutes == 10000

\* C15 as stated: of two messages of one pass the one with the later
\* timestamp has the strictly higher recency, and a message of age 0 has
\* recency exactly 1.
C15_RecencyStrict ==
  Scored =>
    \A i \in 1..Len(passIn.messages) :
      /\ Age(i) = 0 => Recency(i) = Frac(1, 1)
      /\ \A j \in 1..Len(passIn.messages) :
           Later(i, j) => Less(Recency(j), Recency(i))

\* C15, amended: the recency never grows with the age; the message with
\* the later timestamp scores strictly higher when it is at most
\* StrictAgeMinutes old; a message of age 0 has recency exactly 1.
C15_RecencyMonotone ==
  Scored =>
    \A i \in 1..Len(passIn.messages) :
      /\ Age(i) = 0 => Recency(i) = Frac(1, 1)
      /\ \A j \in 1..Len(passIn.messages) :
           Later(i, j) =>
             /\ ~Less(Recency(i), Recency(j))
             /\ Age(i) <= StrictAgeMinutes => Less(Recency(j), Recency(i))

\* A pass over a message a few minutes old and two messages of different
\* ages past the underflow, which tie at 0.
C15_Witness ==
  /\ Scored
  /\ \E i, j, k \in 1..Len(passIn.messages) :
       /\ Age(i) > 0 /\ Age(i) <= StrictAgeMinutes
       /\ Later(i, j) /\ Later(j, k)
       /\ Recency(j) = Recency(k)

\* C18: in a scoring pass the corpus statistics of the scorer are built
\* from the messages of the pass once, before the first score, and never
\* again; every BM25 score of the pass is computed against that index.
C18_IndexBuiltOnce ==
  (Scored /\ passIn.messages # <<>>) =>
    /\ passOut.scorerCalls[1].name = "indexDocuments"
    /\ \A k \in 2..Len(passOut.scorerCalls) :
         passOut.scorerCalls[k].name = "calculateScore"
    /\ index.totalDocuments = Len(passIn.messages)
    /\ \A i \in 1..Len(passIn.messages) :
         passOut.scores[i].bm25Score.inRange

----------------------------------------------------------------------------
(* Properties of concurrent prune calls (SpecConc) *)

\* C17: at most one pruning operation is in flight on an engine: no prune
\* call has begun while another has begun and not yet stored its undo
\* record.
C17_OneInFlight == Cardinality(InFlight) <= 1

\* The call of c returns in this step.
Completes(c) == calls[c].pc # "idle" /\ calls'[c].pc = "idle"

\* C30: however prune and rollback calls interleave at the awaits, the
\* prune that returns has inserted exactly one record, under its own
\* pruningId, holding the discarded messages and the original order of its
\* own context; the record it returns is the inserted one; and the undo
\* buffer holds at most 5 records at every yield point.
C30_InterleavedPrunes ==
  [][/\ \A c \in Callers :
          Completes(c) =>
            LET record == result'.rollbackData
                own == categorizeMessages(calls[c].context,
                                          calls[c].strategy)
            IN /\ record.pruningId = calls[c].pruningId
               /\ record.removedMessages = own.toRemove
               /\ record.originalOrder = Ids(calls[c].context)
               /\ ~HistoryHas(rollbackHistory, record.pruningId)
               /\ rollbackHistory'[Len(rollbackHistory')] = record
               /\ \A i \in 1..(Len(rollbackHistory') - 1) :
                    \E j \in 1..Len(rollbackHistory) :
                      rollbackHistory'[i] = rollbackHistory[j]
     /\ Len(rollbackHistory) <= MAX_ROLLBACK_HISTORY
     /\ Len(rollbackHistory') <= MAX_ROLLBACK_HISTORY]_vars

\* A prune has returned before one begun earlier that is still in flight,
\* the buffer is full after an eviction, and a rollback has succeeded.
C30_Witness ==
  /\ op = "prune"
  /\ \E c \in InFlight : calls[c].pruningId < result.rollbackData.pruningId
  /\ Len(rollbackHistory) = MAX_ROLLBACK_HISTORY
  /\ ~HistoryHas(rollbackHistory, 1)
  /\ consumed # {}
  /\ result.rollbackData.removedMessages # <<>>

-----------------------------------------------------------------------------
(* Properties of the summaries of one conversation (SpecSum) *)

Summarized(level) == sumOut.outcome = "returned" /\ sumIn.level = level

\* The position of the first message of segment j in the conversation.
StartOf(segments, j) == 1 + Len(Flatten(SubSeq(segments, 1, j - 1)))

\* A segment starts at position i, after an earlier one.
CutBefore(i) ==
  \E j \in 2..Len(sumOut.segments) : StartOf(sumOut.segments, j) = i

\* Position i closes a segment of SegmentLimit messages.
SizeCutAfter(i) ==
  \E j \in 1..Len(sumOut.segments) :
    /\ Len(sumOut.segments[j]) = SegmentLimit
    /\ StartOf(sumOut.segments, j) + SegmentLimit - 1 = i

\* The files referenced from the last size-triggered cut up to the message
\* before position i.
TrackedAt(i) ==
  LET sizeCuts == {p \in 1..(i - 1) : SizeCutAfter(p)}
      from == IF sizeCuts = {} THEN 1
              ELSE 1 + CHOOSE p \in sizeCuts : \A q \in sizeCuts : q <= p
  IN UNION {FileSet(sumIn.messages[p]) : p \in from..(i - 1)}

SimilarityBelow(i) ==
  LET tracked == TrackedAt(i)
      incoming == FileSet(sumIn.messages[i])
  IN /\ tracked # {}
     /\ 10 * Cardinality(tracked \cap incoming)
          < 3 * Cardinality(tracked \cup incoming)

\* C23: the session-level segments are non-empty, at most 10 long and
\* concatenate to the input in order; a segment boundary lies before a
\* message exactly when the message before it filled a segment to 10, or
\* the current segment is non-empty, files are tracked and their Jaccard
\* similarity with the message's files is below 0.3, the tracked files
\* being those seen since the last size-triggered cut (cleared there, kept
\* across a similarity-triggered cut).
C23_TopicSegments ==
  Summarized("session") =>
    /\ Flatten(sumOut.segments) = Ids(sumIn.messages)
    /\ \A j \in 1..Len(sumOut.segments) :
         Len(sumOut.segments[j]) \in 1..SegmentLimit
    /\ \A i \in 2..Len(sumIn.messages) :
         CutBefore(i) <=> \/ SizeCutAfter(i - 1)
                          \/ ~SizeCutAfter(i - 1) /\ SimilarityBelow(i)

\* A conversation cut once by size and later by similarity, and with a
\* message kept in its segment only because of files tracked from before
\* an earlier similarity cut.
C23_Witness ==
  /\ Summarized("session")
  /\ \E i, j \in 1..Len(sumIn.messages) :
       i + 1 < j /\ SizeCutAfter(i) /\ CutBefore(j) /\ SimilarityBelow(j)
  /\ \E i \in 3..Len(sumIn.messages) :
       /\ ~CutBefore(i)
       /\ CutBefore(i - 1)
       /\ FileSet(sumIn.messages[i - 1]) \cap FileSet(sumIn.messages[i]) = {}
       /\ FileSet(sumIn.messages[i - 1]) # {}

\* The number of places in the returned summaries' originalMessageIds that
\* hold the id.
Occurrences(id) ==
  Cardinality({p \in (1..Len(sumOut.summaries)) \X (1..Len(sumIn.messages)) :
                 /\ p[2] <= Len(sumOut.summaries[p[1]].originalMessageIds)
                 /\ sumOut.summaries[p[1]].originalMessageIds[p[2]] = id})

\* C24: at each level, every message of the input is in the
\* originalMessageIds of exactly one returned Summary.
C24_EveryMessageSummarizedOnce ==
  sumOut.outcome = "returned" =>
    \A i \in 1..Len(sumIn.messages) : Occurrences(sumIn.messages[i].id) = 1

\* C25: the text of every Summary is at most as long as the budget of its
\* level: 200, 500 and 1000 characters.
C25_SummaryWithinLength ==
  sumOut.outcome = "returned" =>
    \A i \in 1..Len(sumOut.summaries) :
      ContentLength(sumOut.summaries[i].content)
        <= MAX_SUMMARY_LENGTH[sumOut.summaries[i].level]

-----------------------------------------------------------------------------
(* Properties of the thread continuity (SpecCoh) *)

\* The messages of the window other than the message itself.
Neighbours ==
  SelectSeq(getContextWindow(cohIn.messageIndex, cohIn.allMessages,
                             windowSize),
            LAMBDA m : m.id # cohIn.message.id)

\* C26: the thread continuity of a message with no neighbouring message in
\* its window, such as the only message of a conversation, is the neutral
\* value 0.5.
C26_IsolatedIsNeutral ==
  (cohOut.kind # "none" /\ Neighbours = <<>>) =>
    cohOut.kind = "fixed" /\ cohOut.tenths = 5

====
